---- MODULE Spec2Model ----
(***************************************************************************)
(* A model of the registry server (chrisdickinson/registry):               *)
(*   - the read-through package storage (ReadThrough over RemoteRegistry   *)
(*     over a cacache directory) together with the packument and tarball   *)
(*     GET handlers;                                                       *)
(*   - the OAuth login-session state machine, the in-memory token          *)
(*     authorizer and user storage, and the login / whoami handlers.       *)
(* The two halves share no state, so each has its own specification:       *)
(* SpecRT and SpecAuth.                                                    *)
(***************************************************************************)
EXTENDS Integers, Sequences, FiniteSets, TLC

VARIABLES
    cache,           \* the cacache index: key -> content of the latest committed entry
    rt,              \* per request task: position in stream_packument / stream_tarball
    login_sessions,  \* OAuthAuthenticator.login_sessions: id -> LoginSession
    sessions_lock,   \* holder of the write guard of login_sessions (NoOne when free)
    token_sessions,  \* InMemoryTokenAuthorizer.token_sessions: token -> user
    users,           \* InMemoryUserStorage.users: the registered user names
    cookies,         \* the signed sid cookies handed out so far
    ids,             \* how many session ids and tokens were generated so far
    au,              \* per client task: position in its handler and its locals
    out,             \* the answer of the handler call that returned last
    call,            \* the last call of a function checked on its own: name, argument, result
    policy           \* the Policy under construction: what fills each capability slot

vars ==
    <<cache, rt, login_sessions, sessions_lock, token_sessions, users, cookies, ids, au, out, call,
      policy>>
rtVars == <<cache, rt>>
auVars == <<login_sessions, sessions_lock, token_sessions, users, cookies, ids, au, out>>
fnVars == <<call, policy>>

(***************************************************************************)
(* Bounds                                                                  *)
(***************************************************************************)
MaxReqs == 2        \* concurrent read-through request tasks
MaxChunk == 2       \* the largest number of bytes the transport puts in a chunk

Reqs == 1..MaxReqs

\* An index lookup: no entry for the key, or the content of its newest entry.
NoEntry == [found |-> FALSE, content |-> <<>>]
Entry(content) == [found |-> TRUE, content |-> content]

(***************************************************************************)
(* Sequence helpers                                                        *)
(***************************************************************************)
Take(s, n) == SubSeq(s, 1, n)
Drop(s, n) == SubSeq(s, n + 1, Len(s))
Min(a, b) == IF a < b THEN a ELSE b
IsPrefix(p, s) == Len(p) <= Len(s) /\ Take(s, Len(p)) = p

(***************************************************************************)
(* Packuments as the storage sees them.  A document is a name and the      *)
(* dist.tarball string of its one version; on the wire it is the name      *)
(* byte followed by the characters of the tarball string.                  *)
(***************************************************************************)
UpstreamUrl == <<"U">>
PublicUrl == <<"P">>

SerializeDoc(doc) == <<doc.name>> \o doc.tarball
Parses(bytes) == bytes # <<>>
ParseDoc(bytes) == [name |-> Head(bytes), tarball |-> Tail(bytes)]

\* str::replace: every non-overlapping occurrence of `from`, left to right.
RECURSIVE Replace(_, _, _)
Replace(s, from, to) ==
    IF from = <<>>
    THEN \* the empty pattern matches before every character and at the end
         to \o (IF s = <<>> THEN <<>> ELSE <<Head(s)>> \o Replace(Tail(s), from, to))
    ELSE IF Len(s) < Len(from) THEN s
    ELSE IF Take(s, Len(from)) = from
         THEN to \o Replace(Drop(s, Len(from)), from, to)
         ELSE <<Head(s)>> \o Replace(Tail(s), from, to)

\* RemoteStore::get_packument: parse, rewrite each version's dist.tarball, serialize.
\* (bytes that do not parse make the call fail; they are left as they are here)
RewritePackument(bytes) ==
    IF ~Parses(bytes) THEN bytes
    ELSE LET doc == ParseDoc(bytes) IN
         SerializeDoc([doc EXCEPT !.tarball = Replace(doc.tarball, UpstreamUrl, PublicUrl)])

(***************************************************************************)
(* Requests, cache keys and the upstream registry                          *)
(***************************************************************************)
Targets ==
    { [kind |-> "packument", pkg |-> "foo", version |-> ""],
      [kind |-> "tarball", pkg |-> "foo", version |-> "1.0.0"] }

\* format!("packument:{}", name) and format!("tarball:{}:{}", name, version)
CacheKey(t) ==
    IF t.kind = "packument" THEN <<"packument:", t.pkg>>
    ELSE <<"tarball:", t.pkg, ":", t.version>>

Keys == { CacheKey(t) : t \in Targets }

\* What the upstream registry may answer to the GET that RemoteRegistry issues:
\* the package's content with 200, or an error document with a non-2xx status.
UpstreamContent(t) ==
    IF t.kind = "packument"
    THEN SerializeDoc([name |-> "n", tarball |-> UpstreamUrl \o <<"x">>])
    ELSE <<"g", "z">>
ErrorBody == <<"E">>
Statuses == {200, 404}
UpstreamBody(t, status) == IF status = 200 THEN UpstreamContent(t) ELSE ErrorBody

(***************************************************************************)
(* Read-through request tasks                                              *)
(***************************************************************************)
NoResp == [code |-> 0, body |-> <<>>]

IdleReq ==
    [pc |-> "idle", target |-> CHOOSE t \in Targets : t.kind = "packument",
     stream |-> <<>>, writer |-> <<>>, status |-> 0, arrived |-> <<>>,
     upErr |-> FALSE, fetches |-> 0, hit |-> FALSE, afterCommit |-> FALSE,
     committed |-> NoEntry, resp |-> NoResp]

\* A lookup that never finds the entry (as if opened under another key).
CacheOpenMiss(key) == NoEntry

\* cacache::Reader::open followed by ReaderStream: the content the index names at open.
CacheOpen(key) == cache[key]
OpenHit(key) == CacheOpen(key).found

\* handlers::v1::get_packument / get_tarball on Ok(stream): 200 with the stream as body.
RespondStream(body) == [code |-> 200, body |-> body]
\* ... and on Err: map_err(|_| StatusCode::INTERNAL_SERVER_ERROR).
RespondError == [code |-> 500, body |-> <<>>]

\* A request arrives: the handler calls stream_packument / stream_tarball, which
\* opens the cache entry; a hit is streamed, a miss goes on to the upstream.
\* Requests for different resources share no state (each key is its own cache
\* entry), so one behaviour follows the requests for one resource.
\* afterCommit records whether the key had a committed entry when the call started.
Begin(r, t) ==
    /\ rt[r].pc \in {"idle", "done"}
    /\ \A q \in Reqs : rt[q].pc # "idle" => rt[q].target = t
    /\ LET key == CacheKey(t)
           fresh == [IdleReq EXCEPT !.target = t, !.afterCommit = cache[key].found] IN
       IF OpenHit(key)
       THEN rt' = [rt EXCEPT ![r] = [fresh EXCEPT !.pc = "done", !.hit = TRUE,
                                       !.resp = RespondStream(CacheOpen(key).content)]]
       ELSE rt' = [rt EXCEPT ![r] = [fresh EXCEPT !.pc = "fetch"]]
    /\ UNCHANGED <<cache>>
    /\ UNCHANGED <<auVars, fnVars>>

\* self.inner.stream_*(name).await? : RemoteRegistry's reqwest::get(url).await? fails
\* only when the transport does ...
FetchFails(r) ==
    /\ rt[r].pc = "fetch"
    /\ rt' = [rt EXCEPT ![r].pc = "done", ![r].fetches = @ + 1, ![r].resp = RespondError]
    /\ UNCHANGED <<cache>>
    /\ UNCHANGED <<auVars, fnVars>>

\* ... any response, whatever its status, becomes the byte stream of its body, and
\* cacache::Writer::create opens a writer for the key.
Fetch(r, status) ==
    /\ rt[r].pc = "fetch"
    /\ rt' = [rt EXCEPT ![r].pc = "fill", ![r].fetches = @ + 1, ![r].status = status,
                        ![r].stream = UpstreamBody(rt[r].target, status),
                        ![r].writer = <<>>]
    /\ UNCHANGED <<cache>>
    /\ UNCHANGED <<auVars, fnVars>>

\* writer.write_all(chunk)
WriteAll(buffer, chunk) == buffer \o chunk

\* stream.next() yields Some(Ok(chunk)): the chunk is written to the cache writer.
NextChunk(r, n) ==
    /\ rt[r].pc = "fill"
    /\ n \in 1..Min(MaxChunk, Len(rt[r].stream))
    /\ LET chunk == Take(rt[r].stream, n) IN
       rt' = [rt EXCEPT ![r].stream = Drop(@, n),
                        ![r].arrived = @ \o chunk,
                        ![r].writer = WriteAll(@, chunk)]
    /\ UNCHANGED <<cache>>
    /\ UNCHANGED <<auVars, fnVars>>

\* stream.next() yields Some(Err(_)): `let Ok(chunk) = chunk else { break }`.
OnChunkError(q) == [q EXCEPT !.pc = "commit", !.upErr = TRUE]

NextError(r) ==
    /\ rt[r].pc = "fill"
    /\ rt' = [rt EXCEPT ![r] = OnChunkError(@)]
    /\ UNCHANGED <<cache>>
    /\ UNCHANGED <<auVars, fnVars>>

\* stream.next() yields None: the loop ends.
NextEnd(r) ==
    /\ rt[r].pc = "fill"
    /\ rt[r].stream = <<>>
    /\ rt' = [rt EXCEPT ![r].pc = "commit"]
    /\ UNCHANGED <<cache>>
    /\ UNCHANGED <<auVars, fnVars>>

\* A commit the index does not take up.
IndexInsertLost(old, content) == old

\* cacache's index is append-only and a lookup returns the newest entry of the key,
\* so a commit makes the writer's content the one the key names.
IndexInsert(old, content) == Entry(content)

\* writer.commit().await?
Commit(r) ==
    /\ rt[r].pc = "commit"
    /\ LET key == CacheKey(rt[r].target) IN
       cache' = [cache EXCEPT ![key] = IndexInsert(@, rt[r].writer)]
    /\ rt' = [rt EXCEPT ![r].pc = "reopen", ![r].committed = Entry(rt[r].writer),
                        ![r].writer = <<>>]
    /\ UNCHANGED <<auVars, fnVars>>

\* return self.stream_*(name).await : the entry is opened again and streamed.
Reopen(r) ==
    /\ rt[r].pc = "reopen"
    /\ LET key == CacheKey(rt[r].target) IN
       IF OpenHit(key)
       THEN rt' = [rt EXCEPT ![r].pc = "done", ![r].resp = RespondStream(CacheOpen(key).content)]
       ELSE rt' = [rt EXCEPT ![r].pc = "fetch"]
    /\ UNCHANGED <<cache>>
    /\ UNCHANGED <<auVars, fnVars>>

NextRT ==
    \/ \E r \in Reqs, t \in Targets : Begin(r, t)
    \/ \E r \in Reqs : FetchFails(r)
    \/ \E r \in Reqs, status \in Statuses : Fetch(r, status)
    \/ \E r \in Reqs, n \in 1..MaxChunk : NextChunk(r, n)
    \/ \E r \in Reqs : NextError(r)
    \/ \E r \in Reqs : NextEnd(r)
    \/ \E r \in Reqs : Commit(r)
    \/ \E r \in Reqs : Reopen(r)

(***************************************************************************)
(* Login sessions (OAuthAuthenticator), token sessions, users              *)
(***************************************************************************)
MaxClients == 2     \* concurrent client tasks (handlers in flight)
MaxSessions == 1    \* login sessions started in one behaviour
MaxTokens == 5      \* token sessions started by direct start_session calls

Clients == 1..MaxClients
SessionIds == 1..MaxSessions    \* Uuid::new_v4() of start_login_session: fresh each time
TokenIds == 1..MaxSessions      \* Uuid::new_v4() of start_session: fresh each time
\* CsrfToken::new_random: a value no session holds; one more value than there are
\* sessions always leaves one, and a client may present any value as `state`.
CsrfTokens == 1..(MaxSessions + 1)
Logins == {"alice", "bob"}      \* GitHub logins; an authorization code stands for one

NoOne == 0          \* nobody holds the write guard
None == "None"      \* Option::None
NoCsrf == 0         \* LoginSession.csrftoken = None
NoSid == 0          \* no sid cookie in the jar
NoToken == 0        \* no usable Authorization header
\* a query string that does not parse as ReceivedCode {code, state}
NoQuery == [state |-> 0, code |-> ""]
Queries == {NoQuery} \cup [state : CsrfTokens, code : Logins]

\* A session that starts out with a csrf token.
PresetLoginSession == [user |-> None, csrftoken |-> 1]

\* LoginSession { user: None, csrftoken: None, .. } as start_login_session inserts it
NewLoginSession == [user |-> None, csrftoken |-> NoCsrf]

\* A handler's answer.  sid: the session of doneUrl / loginUrl; token, user: the
\* token of the poll answer and the username of the whoami answer.
NoAuResp ==
    [op |-> "", code |-> "", err |-> "", sid |-> NoSid, token |-> NoToken, user |-> None]
\* A client task: idle, or suspended inside a multi-step call with the locals of
\* that call.  quiet: no other operation on the session has been in flight during
\* this poll.
IdleClient ==
    [pc |-> "idle", sid |-> NoSid, state |-> 0, code |-> "", seen |-> None,
     quiet |-> TRUE, ret |-> None]
\* The handler of task c returns resp; the other tasks are as in a.
Return(a, c, resp) ==
    /\ out' = resp
    /\ au' = [a EXCEPT ![c] = IdleClient]

Ready(c) == au[c].pc = "idle"
InFlightOn(c, s) == ~Ready(c) /\ au[c].sid = s
Alone(c, s) == \A d \in Clients \ {c} : ~InFlightOn(d, s)
Disturb(a, c, s) ==
    [d \in Clients |->
        IF d # c /\ a[d].pc = "remove" /\ a[d].sid = s
        THEN [a[d] EXCEPT !.quiet = FALSE] ELSE a[d]]

\* An Err out of the authenticator reaches `let Ok(..) = .. else { todo!() }`: the
\* handler panics and the client gets no response of the handler's making.
Panic(op, err) == [NoAuResp EXCEPT !.op = op, !.code = "panic", !.err = err]
Respond(op, code) == [NoAuResp EXCEPT !.op = op, !.code = code]

\* POST /-/v1/login: post_login -> start_login_session
PostLogin(c) ==
    /\ Ready(c)
    /\ sessions_lock = NoOne
    /\ ids.session < MaxSessions
    /\ LET id == ids.session + 1 IN
       /\ ids' = [ids EXCEPT !.session = id]
       /\ login_sessions' = [s \in DOMAIN login_sessions \cup {id} |->
                                IF s = id THEN NewLoginSession ELSE login_sessions[s]]
       /\ Return(Disturb(au, c, id), c, [Respond("login", "200") EXCEPT !.sid = id])
    /\ UNCHANGED <<sessions_lock, token_sessions, users, cookies>>
    /\ UNCHANGED <<rtVars, fnVars>>

\* The values CsrfToken::new_random can return: none that a session holds.
FreshCsrf == CsrfTokens \ { login_sessions[s].csrftoken : s \in DOMAIN login_sessions }

\* ANY /-/v1/login/www/:session : complete_login_session with bearer = Some(s), the
\* redirect phase.  The write guard taken in the `if let` lives to the end of the call.
Redirect(c, s, csrftoken) ==
    /\ Ready(c)
    /\ sessions_lock = NoOne
    /\ IF s \in DOMAIN login_sessions
       THEN /\ csrftoken \in FreshCsrf
            /\ login_sessions' = [login_sessions EXCEPT ![s].csrftoken = csrftoken]
            /\ cookies' = cookies \cup {s}
            /\ Return(Disturb(au, c, s), c, Respond("redirect", "307"))
       ELSE /\ csrftoken = NoCsrf
            /\ Return(Disturb(au, c, s), c, Panic("redirect", "unrecognized login session"))
            /\ UNCHANGED <<login_sessions, cookies>>
    /\ UNCHANGED <<sessions_lock, token_sessions, users, ids>>
    /\ UNCHANGED <<rtVars, fnVars>>

\* Any state passes once the session holds a token.
CsrfAnyState(state, csrftoken) == csrftoken # NoCsrf

\* Some(received.state.secret()) != session.csrftoken.as_ref()  =>  bail
CsrfMatches(state, csrftoken) == csrftoken # NoCsrf /\ state = csrftoken

\* ANY /-/v1/login/www/ : complete_login_session with bearer = None, the callback
\* phase, up to the code exchange.  cookie is the session id of a signed sid cookie
\* the client holds (NoSid: none, or one whose signature does not verify).
CallbackBegin(c, query, cookie) ==
    /\ Ready(c)
    /\ cookie \in cookies \cup {NoSid}
    /\ IF query = NoQuery
       THEN \* the `if let Ok(received)` block is skipped
            /\ Return(au, c, Respond("callback", "200"))
            /\ UNCHANGED sessions_lock
       ELSE IF cookie = NoSid
       THEN /\ Return(au, c, Panic("callback", "expected session id cookie"))
            /\ UNCHANGED sessions_lock
       ELSE /\ sessions_lock = NoOne
            /\ IF cookie \notin DOMAIN login_sessions
               THEN /\ Return(Disturb(au, c, cookie), c,
                           Panic("callback", "unrecognized login session"))
                    /\ UNCHANGED sessions_lock
               ELSE IF ~CsrfMatches(query.state, login_sessions[cookie].csrftoken)
               THEN /\ Return(Disturb(au, c, cookie), c, Panic("callback", "csrf token mismatch"))
                    /\ UNCHANGED sessions_lock
               ELSE /\ au' = Disturb([au EXCEPT ![c] = [IdleClient EXCEPT !.pc = "exchange",
                                         !.sid = cookie, !.state = query.state,
                                         !.code = query.code]], c, cookie)
                    /\ UNCHANGED out
                    /\ sessions_lock' = c
    /\ UNCHANGED <<login_sessions, token_sessions, users, cookies, ids>>
    /\ UNCHANGED <<rtVars, fnVars>>

\* From<GitHubUser> for User: name = login of the profile the code's grant belongs to
ProfileLogin(code) == code

\* The rest of the callback phase: the code exchange and the profile fetch (either
\* may fail), register_user, session.user = Some(user); the write guard is dropped
\* when the call returns.
CallbackFinish(c, transportOk) ==
    /\ au[c].pc = "exchange"
    /\ sessions_lock' = NoOne
    /\ IF transportOk
       THEN LET user == ProfileLogin(au[c].code) IN
            /\ users' = users \cup {user}
            /\ login_sessions' = [login_sessions EXCEPT ![au[c].sid].user = user]
            /\ Return(Disturb(au, c, au[c].sid), c, Respond("callback", "200"))
       ELSE /\ Return(Disturb(au, c, au[c].sid), c, Panic("callback", "upstream"))
            /\ UNCHANGED <<users, login_sessions>>
    /\ UNCHANGED <<token_sessions, cookies, ids>>
    /\ UNCHANGED <<rtVars, fnVars>>

\* A session counts as completed whatever it holds.
HasUserAlways(session) == TRUE

\* session.user.is_some()
HasUser(session) == session.user # None

\* GET /-/v1/login/poll/:session : get_login_poll -> poll_login_session, the block
\* under the read guard; Ok(None) makes the handler answer 202.
PollRead(c, s) ==
    /\ Ready(c)
    /\ sessions_lock = NoOne
    /\ IF s \notin DOMAIN login_sessions
       THEN Return(Disturb(au, c, s), c, Panic("poll", "unrecognized login session"))
       ELSE IF ~HasUser(login_sessions[s])
       THEN Return(Disturb(au, c, s), c, Respond("poll", "202"))
       ELSE /\ au' = Disturb([au EXCEPT ![c] = [IdleClient EXCEPT !.pc = "remove", !.sid = s,
                                     !.seen = login_sessions[s].user,
                                     !.quiet = Alone(c, s)]], c, s)
            /\ UNCHANGED out
    /\ UNCHANGED <<login_sessions, sessions_lock, token_sessions, users, cookies, ids>>
    /\ UNCHANGED <<rtVars, fnVars>>

\* A remove that leaves the map as it was.
SessionsKeep(sessions, s) == sessions

\* HashMap::remove(&bearer) on the login-session map
SessionsRemove(sessions, s) == [x \in DOMAIN sessions \ {s} |-> sessions[x]]

\* self.login_sessions.write().await.remove(&bearer), then session.and_then(|s| s.user);
\* on None the handler answers 202, on Some(user) it goes on to start_session.
PollRemove(c) ==
    /\ au[c].pc = "remove"
    /\ sessions_lock = NoOne
    /\ LET s == au[c].sid
           user == IF s \in DOMAIN login_sessions THEN login_sessions[s].user ELSE None IN
       /\ login_sessions' = SessionsRemove(login_sessions, s)
       /\ IF user = None
          THEN Return(Disturb(au, c, s), c, Respond("poll", "202"))
          ELSE /\ au' = Disturb([au EXCEPT ![c] = [IdleClient EXCEPT !.pc = "start_session",
                                        !.sid = s, !.ret = user]], c, s)
               /\ UNCHANGED out
    /\ UNCHANGED <<sessions_lock, token_sessions, users, cookies, ids>>
    /\ UNCHANGED <<rtVars, fnVars>>

\* An insert that hands every token session to the new user.
TokenInsertRebinds(sessions, key, user) == [t \in DOMAIN sessions \cup {key} |-> user]

\* self.token_sessions.write().await.insert(key, TokenSession { user, .. })
TokenInsert(sessions, key, user) ==
    [t \in DOMAIN sessions \cup {key} |-> IF t = key THEN user ELSE sessions[t]]

\* InMemoryTokenAuthorizer::start_session(user), and the handler's 200 {token}
PollStartSession(c) ==
    /\ au[c].pc = "start_session"
    /\ LET key == ids.token + 1 IN
       /\ ids' = [ids EXCEPT !.token = key]
       /\ token_sessions' = TokenInsert(token_sessions, key, au[c].ret)
       /\ Return(au, c, [Respond("poll", "200") EXCEPT !.token = key])
    /\ UNCHANGED <<login_sessions, sessions_lock, users, cookies>>
    /\ UNCHANGED <<rtVars, fnVars>>

\* A lookup that finds nobody.
AuthenticateNobody(token) == None

\* InMemoryTokenAuthorizer::authenticate_session_bearer
AuthenticateSessionBearer(token) ==
    IF token \in DOMAIN token_sessions THEN token_sessions[token] ELSE None

(***************************************************************************)
(* TokenAuthorizer::authenticate_session on the text of the Authorization   *)
(* header.  A header is the sequence of its characters; <<>> stands for a   *)
(* request without the header.                                              *)
(***************************************************************************)
NoCall == [fn |-> ""]     \* no call made yet
NoHeader == <<>>
Space == " "
Digits == <<"1", "2", "3", "4", "5", "6", "7", "8", "9">>

\* str::strip_prefix
HasPrefix(s, prefix) == IsPrefix(prefix, s)
StripPrefix(s, prefix) == Drop(s, Len(prefix))

\* str::trim
RECURSIVE TrimStart(_)
TrimStart(s) == IF s # <<>> /\ Head(s) = Space THEN TrimStart(Tail(s)) ELSE s
RECURSIVE TrimEnd(_)
TrimEnd(s) == IF s # <<>> /\ s[Len(s)] = Space THEN TrimEnd(Take(s, Len(s) - 1)) ELSE s
Trim(s) == TrimEnd(TrimStart(s))

\* str::parse::<TokenSessionId>: the id a text names, NoToken when it names none
TokenText(t) == <<Digits[t]>>
ParseToken(s) ==
    IF \E t \in 1..Len(Digits) : s = TokenText(t)
    THEN CHOOSE t \in 1..Len(Digits) : s = TokenText(t)
    ELSE NoToken

\* The scheme prefixes authenticate_session strips.
BearerPrefixes == << <<"B", "e", "a", "r", "e", "r", " ">>, <<"b", "e", "a", "r", "e", "r", " ">> >>

\* TokenAuthorizer::authenticate_session
AuthenticateSession(header) ==
    IF header = NoHeader THEN None
    ELSE IF ~\E i \in 1..Len(BearerPrefixes) : HasPrefix(header, BearerPrefixes[i]) THEN None
    ELSE LET prefix == IF HasPrefix(header, BearerPrefixes[1])
                       THEN BearerPrefixes[1] ELSE BearerPrefixes[2]
             token == ParseToken(Trim(StripPrefix(header, prefix))) IN
         IF token = NoToken THEN None ELSE AuthenticateSessionBearer(token)

\* A call of authenticate_session with the request's header: the one call a
\* behaviour looks at, made against the token sessions started before it.
CallAuthenticateSession(header) ==
    /\ call = NoCall
    /\ call' = [fn |-> "authenticate_session", arg |-> header,
                res |-> AuthenticateSession(header)]
    /\ UNCHANGED <<rtVars, auVars, policy>>

\* GET /-/whoami : the Authenticated extractor (authenticate_session) and whoami.
\* token is the bearer token of the Authorization header (NoToken: no usable header).
Whoami(c, token) ==
    /\ Ready(c)
    /\ LET user == IF token = NoToken THEN None ELSE AuthenticateSessionBearer(token) IN
       Return(au, c, IF user = None THEN Respond("whoami", "401")
                     ELSE [Respond("whoami", "200") EXCEPT !.user = user])
    /\ UNCHANGED <<login_sessions, sessions_lock, token_sessions, users, cookies, ids>>
    /\ UNCHANGED <<rtVars, fnVars>>

\* TokenAuthorizer::start_session(user) called on its own, as any holder of the
\* authorizer may (the poll handler is its one caller among the handlers).
StartSession(c, user) ==
    /\ Ready(c)
    /\ ids.token < MaxTokens
    /\ LET key == ids.token + 1 IN
       /\ ids' = [ids EXCEPT !.token = key]
       /\ token_sessions' = TokenInsert(token_sessions, key, user)
       /\ Return(au, c, [Respond("start_session", "ok") EXCEPT !.token = key])
    /\ UNCHANGED <<login_sessions, sessions_lock, users, cookies>>
    /\ UNCHANGED <<rtVars, fnVars>>

NextAuth ==
    \/ \E c \in Clients : PostLogin(c)
    \/ \E c \in Clients, s \in SessionIds, t \in CsrfTokens \cup {NoCsrf} : Redirect(c, s, t)
    \/ \E c \in Clients, q \in Queries, k \in SessionIds \cup {NoSid} : CallbackBegin(c, q, k)
    \/ \E c \in Clients, transportOk \in BOOLEAN : CallbackFinish(c, transportOk)
    \/ \E c \in Clients, s \in SessionIds : PollRead(c, s)
    \/ \E c \in Clients : PollRemove(c)
    \/ \E c \in Clients : PollStartSession(c)
    \/ \E c \in Clients, token \in TokenIds \cup {NoToken} : Whoami(c, token)

(***************************************************************************)
(* Policy: four capability slots, each NotImplemented until a with_* call   *)
(* fills it, and the capability traits Policy implements by delegation.     *)
(***************************************************************************)
Slots == {"auth", "token_authz", "user_storage", "package_storage"}
NotImplemented == "NotImplemented"
Filled == "filled"

\* Policy::new()
PolicyNew == [slot \in Slots |-> NotImplemented]

\* The operations of the capability traits, each with the slot that serves it.
Operations ==
    { [slot |-> "auth", name |-> n] :
        n \in {"start_login_session", "poll_login_session", "complete_login_session",
              "get_user"} }
    \cup { [slot |-> "token_authz", name |-> n] :
        n \in {"start_session", "authenticate_session", "authenticate_session_bearer"} }
    \cup { [slot |-> "user_storage", name |-> n] :
        n \in {"register_user", "get_user", "list_users"} }
    \cup { [slot |-> "package_storage", name |-> n] :
        n \in {"stream_packument", "stream_tarball", "fetch_packument"} }

Err(msg) == [ok |-> FALSE, val |-> msg]
Ok(val) == [ok |-> TRUE, val |-> val]
NotImplementedError == Err("not implemented")

\* The operations `impl<T: Unimplemented> .. for T` defines.
StubDefines(op) ==
    \/ op.slot = "auth" /\ op.name # "get_user"
    \/ op.slot = "token_authz" /\ op.name # "authenticate_session_bearer"
    \/ op.slot = "user_storage"
    \/ op.slot = "package_storage" /\ op.name # "fetch_packument"

\* The operations `impl .. for Policy` forwards to the slot's implementation.
PolicyForwards(op) ==
    \/ op.slot = "auth" /\ op.name # "get_user"
    \/ op.slot = "token_authz"
    \/ op.slot = "user_storage"
    \/ op.slot = "package_storage" /\ op.name # "fetch_packument"

\* An operation called on NotImplemented: the stub's body, or the trait's provided
\* method where the stub has none (fetch_packument runs on the stub's
\* stream_packument and passes its error on).
StubCall(op) ==
    IF StubDefines(op) THEN NotImplementedError
    ELSE IF op.name = "fetch_packument" THEN NotImplementedError
    ELSE Ok("None")

\* An operation called on a Policy.  A filled slot answers with its
\* implementation's result; an operation Policy does not forward runs the trait's
\* provided method on the Policy itself.
PolicyCall(p, op) ==
    IF PolicyForwards(op)
    THEN IF p[op.slot] = NotImplemented THEN StubCall(op) ELSE Ok(Filled)
    ELSE IF op.name = "fetch_packument"
         THEN IF p[op.slot] = NotImplemented
              THEN StubCall([op EXCEPT !.name = "stream_packument"])
              ELSE Ok(Filled)
         ELSE Ok("None")

\* with_authenticator, with_token_authorizer, with_user_storage, with_package_storage
With(slot) ==
    /\ policy' = [policy EXCEPT ![slot] = Filled]
    /\ UNCHANGED <<rtVars, auVars, call>>

CallOperation(op) ==
    /\ call' = [fn |-> "policy", arg |-> [policy |-> policy, op |-> op],
                res |-> PolicyCall(policy, op)]
    /\ UNCHANGED <<rtVars, auVars, policy>>

NextPolicy ==
    \/ \E slot \in Slots : With(slot)
    \/ \E op \in Operations : CallOperation(op)

(***************************************************************************)
(* The tarball validator of from_diff (the loop over tarball.entries()).    *)
(* Sizes are 64-bit words, kept as four 16-bit limbs, lowest first, so that *)
(* the running sum has the width it has in the program.                     *)
(***************************************************************************)
MaxEntries == 2     \* entries in an archive

MAX_FILE_COUNT == 16000
MAX_UNPACKED_SIZE == 1073741824

LimbBase == 2^16
Limbs == 1..4
ToU64(n) == <<n % LimbBase, (n \div LimbBase) % LimbBase, 0, 0>>
U64Max == [i \in Limbs |-> LimbBase - 1]

\* the carry into limb i of a + b
RECURSIVE Carry(_, _, _)
Carry(a, b, i) == IF i = 1 THEN 0 ELSE (a[i - 1] + b[i - 1] + Carry(a, b, i - 1)) \div LimbBase

\* `as usize` on a target whose pointers have the given width (32 or 64 bits)
PointerWidths == {32, 64}
AsUsize(n, width) == [i \in Limbs |-> IF 16 * i <= width THEN n[i] ELSE 0]

\* a + b in words of the given width, and whether the true sum needs more
WrappingAdd(a, b, width) ==
    AsUsize([i \in Limbs |-> (a[i] + b[i] + Carry(a, b, i)) % LimbBase], width)
Overflows(a, b, width) == Carry(a, b, (width \div 16) + 1) = 1

\* a > b
RECURSIVE GtFrom(_, _, _)
GtFrom(a, b, i) ==
    IF i = 0 THEN FALSE
    ELSE IF a[i] # b[i] THEN a[i] > b[i]
    ELSE GtFrom(a, b, i - 1)
Gt(a, b) == GtFrom(a, b, 4)

\* usize += in a build with overflow checks (the default of debug builds): a panic
\* instead of a wrapped sum.  Release builds wrap.  A build is its setting of the
\* overflow checks and the pointer width of its target.
Builds == [overflow_checks : BOOLEAN, pointer_width : PointerWidths]
Panicked == [ok |-> FALSE, val |-> "panic: attempt to add with overflow"]
Accepted == Ok("valid")

\* Path::strip_prefix("package/"), on the components of the path
HasSomePrefix(path) == path # <<>>
HasPackagePrefix(path) == path # <<>> /\ Head(path) = "package"

\* file_count > MAX_FILE_COUNT
ExceedsFileCountOffByOne(file_count) == file_count >= MAX_FILE_COUNT
ExceedsFileCount(file_count) == file_count > MAX_FILE_COUNT

\* The loop's locals, and one pass of the body of `for entry in tarball.entries()?`:
\* either the function returns (done) or the locals are updated.
Locals(unpacked_size, file_count, saw_package_json) ==
    [unpacked_size |-> unpacked_size, file_count |-> file_count,
     saw_package_json |-> saw_package_json]
Returns(result) == [done |-> TRUE, res |-> result]
Continues(locals) == [done |-> FALSE, locals |-> locals]
LoopBody(entry, locals, build) ==
    IF entry.bad THEN Returns(Err("Encountered bad tarball entry"))
    ELSE LET entry_size == AsUsize(entry.size, build.pointer_width) IN
         IF /\ build.overflow_checks
            /\ Overflows(locals.unpacked_size, entry_size, build.pointer_width)
         THEN Returns(Panicked)
    ELSE LET size == WrappingAdd(locals.unpacked_size, entry_size, build.pointer_width)
             count == locals.file_count + 1 IN
         IF ExceedsFileCount(count) THEN Returns(Err("Tarball exceeded maximum file count"))
         ELSE IF Gt(size, ToU64(MAX_UNPACKED_SIZE))
         THEN Returns(Err("Tarball exceeded maximum unpacked size"))
         ELSE IF ~entry.utf8 THEN Returns(Err("Malformed unicode path"))
         ELSE IF ~HasPackagePrefix(entry.path)
         THEN Returns(Err("Tarball entry didn't start with 'package/'"))
         ELSE Continues(Locals(size, count,
                               locals.saw_package_json \/ Tail(entry.path) = <<"package.json">>))

\* the check after the loop
AfterLoop(locals) ==
    IF ~locals.saw_package_json THEN Err("Tarball did not contain package.json") ELSE Accepted

\* The loop from entry i on, then the check after the loop.
RECURSIVE ValidateFrom(_, _, _, _, _, _)
ValidateFrom(entries, i, unpacked_size, file_count, saw_package_json, build) ==
    LET locals == Locals(unpacked_size, file_count, saw_package_json) IN
    IF i > Len(entries) THEN AfterLoop(locals)
    ELSE LET pass == LoopBody(entries[i], locals, build) IN
         IF pass.done THEN pass.res
         ELSE ValidateFrom(entries, i + 1, pass.locals.unpacked_size, pass.locals.file_count,
                           pass.locals.saw_package_json, build)

ValidateTarball(entries, build) ==
    ValidateFrom(entries, 1, ToU64(0), 0, FALSE, build)

\* Archives: entry sizes around the limit and at the top of the 64-bit range.
TwoTo32 == [i \in Limbs |-> IF i = 3 THEN 1 ELSE 0]
EntrySizes ==
    { ToU64(0), ToU64(1), ToU64(MAX_UNPACKED_SIZE - 1), ToU64(MAX_UNPACKED_SIZE),
      ToU64(MAX_UNPACKED_SIZE + 1), TwoTo32, U64Max }
EntryPaths == { <<"package", "package.json">>, <<"package", "index.js">>, <<"lib", "package.json">> }
BadEntry == [bad |-> TRUE, utf8 |-> TRUE, size |-> ToU64(0), path |-> <<>>]
TarEntries ==
    [bad : {FALSE}, utf8 : {TRUE}, size : EntrySizes, path : EntryPaths]
    \cup {BadEntry, [BadEntry EXCEPT !.bad = FALSE, !.utf8 = FALSE]}
Archives == UNION { [1..n -> TarEntries] : n \in 0..MaxEntries }

CallValidateTarball(entries, build) ==
    /\ call' = [fn |-> "validate_tarball",
                arg |-> [entries |-> entries, build |-> build],
                res |-> ValidateTarball(entries, build)]
    /\ UNCHANGED <<rtVars, auVars, policy>>

\* one call in a behaviour
ValidateOnce ==
    /\ call = NoCall
    /\ \E entries \in Archives, build \in Builds : CallValidateTarball(entries, build)

NextTar == ValidateOnce

\* The same loop, one entry of the archive at a time: the archive is opened, the
\* iterator yields entries, and the end of the archive leads to the check after
\* the loop.  read counts the entries the iterator has yielded.
EmptyFile(path) == [bad |-> FALSE, utf8 |-> TRUE, size |-> ToU64(0), path |-> path]
YieldedEntries ==
    { EmptyFile(<<"package", "package.json">>), EmptyFile(<<"package", "index.js">>),
      EmptyFile(<<"lib", "index.js">>),
      [EmptyFile(<<"package", "big">>) EXCEPT !.size = U64Max],
      [EmptyFile(<<>>) EXCEPT !.bad = TRUE] }
InLoop(build, read, locals) ==
    [fn |-> "tarball.entries", build |-> build, read |-> read, done |-> FALSE,
     locals |-> locals, res |-> Accepted]
Returned(build, read, result) ==
    [fn |-> "tarball.entries", build |-> build, read |-> read, done |-> TRUE,
     locals |-> Locals(ToU64(0), 0, FALSE), res |-> result]
Looping == call.fn = "tarball.entries" /\ ~call.done

OpenArchive ==
    /\ call = NoCall
    /\ \E build \in Builds : call' = InLoop(build, 0, Locals(ToU64(0), 0, FALSE))
    /\ UNCHANGED <<rtVars, auVars, policy>>

YieldEntry(entry) ==
    /\ LET pass == LoopBody(entry, call.locals, call.build) IN
       call' = IF pass.done THEN Returned(call.build, call.read + 1, pass.res)
               ELSE InLoop(call.build, call.read + 1, pass.locals)
    /\ UNCHANGED <<rtVars, auVars, policy>>

NextEntry == Looping /\ \E entry \in YieldedEntries : YieldEntry(entry)

EndOfArchive ==
    /\ Looping
    /\ call' = Returned(call.build, call.read, AfterLoop(call.locals))
    /\ UNCHANGED <<rtVars, auVars, policy>>

NextEntries == OpenArchive \/ NextEntry \/ EndOfArchive

(***************************************************************************)
(* PackageIdentifier::from_str.  Strings are sequences of characters.       *)
(***************************************************************************)
\* an Option<T>
Absent == [some |-> FALSE]
Some(v) == [some |-> TRUE, val |-> v]
OrElse(a, b) == IF a.some THEN a ELSE b

\* urlencoding::decode: %XX becomes the byte XX, any other % stays; bytes that are
\* not UTF-8 are an error.  HexByte lists the escapes the inputs use.
InvalidByte == "\\xFF"
HexByte(hi, lo) ==
    IF <<hi, lo>> \in {<<"2", "F">>, <<"2", "f">>} THEN Some("/")
    ELSE IF <<hi, lo>> = <<"4", "0">> THEN Some("@")
    ELSE IF <<hi, lo>> = <<"2", "5">> THEN Some("%")
    ELSE IF <<hi, lo>> \in {<<"F", "F">>, <<"f", "f">>} THEN Some(InvalidByte)
    ELSE Absent
RECURSIVE PercentDecode(_)
PercentDecode(s) ==
    IF s = <<>> THEN <<>>
    ELSE IF Head(s) = "%" /\ Len(s) >= 3 /\ HexByte(s[2], s[3]).some
    THEN <<HexByte(s[2], s[3]).val>> \o PercentDecode(SubSeq(s, 4, Len(s)))
    ELSE <<Head(s)>> \o PercentDecode(Tail(s))
UrlDecode(s) ==
    LET bytes == PercentDecode(s) IN
    IF \E i \in 1..Len(bytes) : bytes[i] = InvalidByte
    THEN Err("PackageIdentifierMustBeUtf8")
    ELSE Ok(bytes)

\* str::split(sep): the parts between the separators, at least one part
RECURSIVE Split(_, _)
Split(s, sep) ==
    IF \A i \in 1..Len(s) : s[i] # sep THEN <<s>>
    ELSE LET i == CHOOSE j \in 1..Len(s) : s[j] = sep /\ \A k \in 1..(j - 1) : s[k] # sep
         IN <<SubSeq(s, 1, i - 1)>> \o Split(SubSeq(s, i + 1, Len(s)), sep)

\* impl Display for PackageIdentifier
Render(pkg) ==
    IF pkg.scope.some THEN <<"@">> \o pkg.scope.val \o <<"/">> \o pkg.name ELSE pkg.name

ParseIgnoringMoreParts(str) ==
    LET decoded == UrlDecode(str) IN
    IF ~decoded.ok THEN decoded
    ELSE LET parts == Split(decoded.val, "/")
             part == parts[1]
             scoped == part # <<>> /\ Head(part) = "@"
         IN
         IF scoped /\ Len(parts) < 2
         THEN Err("expected a name component after a scope component")
         ELSE Ok([scope |-> IF scoped THEN Some(Tail(part)) ELSE Absent,
                  name |-> IF scoped THEN parts[2] ELSE part])

ParsePackageIdentifier(str) ==
    LET decoded == UrlDecode(str) IN
    IF ~decoded.ok THEN decoded
    ELSE LET parts == Split(decoded.val, "/")
             part == parts[1]
             scoped == part # <<>> /\ Head(part) = "@"
         IN
         IF scoped /\ Len(parts) < 2
         THEN Err("expected a name component after a scope component")
         ELSE IF Len(parts) > (IF scoped THEN 2 ELSE 1)
         THEN Err("package identifiers must have at most 1 slash")
         ELSE Ok([scope |-> IF scoped THEN Some(Tail(part)) ELSE Absent,
                  name |-> IF scoped THEN parts[2] ELSE part])

(***************************************************************************)
(* PackageModification::from_diff                                           *)
(***************************************************************************)
MaxStargazers == 2    \* user names that may star a package
MaxMaintainers == 2   \* length of a maintainers list

\* Maintainer::into_object.  The regex of the Byline variant,
\*   (?<name>[^<(]+)\s*(<(?<email>[^>]+)>)?\s*(\((?<url>[^)]+)\))?
\* is matched at the leftmost place a name can start; every part takes as much as
\* it can.  RunEnd is the last index of the longest run from `from` of characters
\* outside `stop` (from - 1 when the run is empty).
RECURSIVE RunEnd(_, _, _)
RunEnd(str, from, stop) ==
    IF from > Len(str) \/ str[from] \in stop THEN from - 1
    ELSE RunEnd(str, from + 1, stop)
RECURSIVE FirstOutside(_, _, _)
FirstOutside(str, from, set) ==
    IF from > Len(str) \/ str[from] \notin set THEN from
    ELSE FirstOutside(str, from + 1, set)
RECURSIVE SkipSpaces(_, _)
SkipSpaces(str, from) ==
    IF from <= Len(str) /\ str[from] = Space THEN SkipSpaces(str, from + 1) ELSE from

\* an optional group `open [^close]+ close` at `from`: its capture and where the
\* match goes on
OptionalGroup(str, from, open, close) ==
    LET end == RunEnd(str, from + 1, {close}) IN
    IF /\ from <= Len(str) /\ str[from] = open
       /\ end >= from + 1
       /\ end + 1 <= Len(str) /\ str[end + 1] = close
    THEN [capture |-> Some(SubSeq(str, from + 1, end)), next |-> end + 2]
    ELSE [capture |-> Absent, next |-> from]

\* xs.as_str().trim().to_string() on a capture
CaptureRaw(capture) == capture
CaptureTrimmed(capture) == IF capture.some THEN Some(Trim(capture.val)) ELSE Absent

MaintainerObject(name, email, url) == [name |-> name, email |-> email, url |-> url]
ParseByline(str) ==
    LET start == FirstOutside(str, 1, {"<", "("}) IN
    IF start > Len(str) THEN MaintainerObject(Absent, Absent, Absent)
    ELSE LET name_end == RunEnd(str, start, {"<", "("})
             email == OptionalGroup(str, SkipSpaces(str, name_end + 1), "<", ">")
             url == OptionalGroup(str, SkipSpaces(str, email.next), "(", ")")
         IN MaintainerObject(CaptureTrimmed(Some(SubSeq(str, start, name_end))),
                             CaptureTrimmed(email.capture), CaptureTrimmed(url.capture))

IntoObject(maint) == IF "byline" \in DOMAIN maint THEN ParseByline(maint.byline) ELSE maint
MaintainerNames(maintainers) ==
    { IntoObject(maintainers[i]).name.val :
        i \in { j \in 1..Len(maintainers) : IntoObject(maintainers[j]).name.some } }

\* the body shared by the stargazer rule and the maintainer rule once the two sets
\* differ: removals are looked at first
OneElementChange(old_set, new_set, what, remove, add) ==
    LET removed == old_set \ new_set
        added == new_set \ old_set
    IN
    IF removed # {}
    THEN IF Cardinality(removed) > 1
         THEN Err("Can only remove a single " \o what \o " at a time")
         ELSE Ok([kind |-> remove, name |-> CHOOSE x \in removed : TRUE])
    ELSE IF Cardinality(added) > 1
         THEN Err("Can only add a single " \o what \o " at a time")
         ELSE Ok([kind |-> add, name |-> CHOOSE x \in added : TRUE])

StargazerRuleApplies(old, new) ==
    /\ old.stargazers.some /\ new.stargazers.some
    /\ old.stargazers.val # new.stargazers.val
StargazerRule(old, new) ==
    OneElementChange(old.stargazers.val, new.stargazers.val, "stargazer", "RemoveStar", "AddStar")

MaintainerRuleApplies(old, new) ==
    /\ old.maintainers.some /\ new.maintainers.some
    /\ MaintainerNames(old.maintainers.val) # MaintainerNames(new.maintainers.val)
MaintainerRule(old, new) ==
    OneElementChange(MaintainerNames(old.maintainers.val), MaintainerNames(new.maintainers.val),
                     "maintainer", "RemoveMaintainer", "AddMaintainer")

\* The attachment's data is base64 text of gzip data of a tar archive.  Each
\* decoder takes its own layer off and fails on anything else.
Base64Encode(bytes) == [base64 |-> bytes]
GzipEncode(bytes) == [gzip |-> bytes]
TarEncode(entries) == [tar |-> entries]
TarDecode(bytes) ==
    IF "tar" \in DOMAIN bytes THEN Ok(bytes.tar) ELSE Err("Encountered bad tarball entry")
Base64Decode(text) == IF "base64" \in DOMAIN text THEN Ok(text.base64) ELSE Err("invalid base64")
GzipDecode(bytes) == IF "gzip" \in DOMAIN bytes THEN Ok(bytes.gzip) ELSE Err("invalid gzip header")

\* Attachment data that goes on after the end of the gzip stream.
GzipEncodeThen(bytes, rest) == [gzip |-> bytes, rest |-> rest]

\* What io_tee::TeeReader has written to debase64d when the entries loop is
\* over: the bytes the gzip decoder asked the base64 reader for.  Nothing reads
\* on to the end of the data, so what follows the gzip stream is never asked for;
\* of the stream itself the tee is taken to hold all (the most the decoder can
\* have read of it).
Teed(decoded) == IF "gzip" \in DOMAIN decoded THEN GzipEncode(decoded.gzip) ELSE decoded

\* The builds differ only in a sum that wraps; the archives of a publish are
\* validated as by the release build of a 64-bit server.
ServerBuild == [overflow_checks |-> FALSE, pointer_width |-> 64]

TgzSuffix == <<".", "t", "g", "z">>
AttachmentNameWithScope(pkg_name, version_name) ==
    (IF pkg_name.scope.some THEN <<"@">> \o pkg_name.scope.val \o <<"/">> ELSE <<>>)
        \o pkg_name.name \o <<"-">> \o version_name \o TgzSuffix
AttachmentName(pkg_name, version_name) == pkg_name.name \o <<"-">> \o version_name \o TgzSuffix

PublishRuleApplies(new) ==
    /\ new.dist_tags.some /\ new.versions.some /\ new.attachments.some
    /\ LET dist_tags == new.dist_tags.val IN
       \/ Cardinality(DOMAIN dist_tags.tags) = 1 /\ ~dist_tags.latest.some
       \/ dist_tags.latest.some /\ DOMAIN dist_tags.tags = {}

PublishRule(new) ==
    LET dist_tags == new.dist_tags.val
        versions == new.versions.val
        attachments == new.attachments.val
        sole == CHOOSE k \in DOMAIN dist_tags.tags : TRUE
        version_name == IF dist_tags.latest.some THEN dist_tags.latest.val ELSE dist_tags.tags[sole]
        tag_name == IF dist_tags.latest.some THEN "latest" ELSE sole
        pkg_name == OrElse(new.name, new.id)
    IN
    IF version_name \notin DOMAIN versions
    THEN Err("Attempted tag publish failed: did not refer to new version")
    ELSE IF ~pkg_name.some THEN Err("Package name not present")
    ELSE LET parsed == ParsePackageIdentifier(pkg_name.val) IN
    IF ~parsed.ok THEN parsed
    ELSE LET attachment_name == AttachmentName(parsed.val, version_name) IN
    IF attachment_name \notin DOMAIN attachments THEN Err("Expected attachment not found")
    ELSE LET attachment == attachments[attachment_name] IN
    IF attachment.content_type # "application/octet-stream"
    THEN Err("Expected attachment to have application/octet-stream content-type")
    ELSE LET debase64d == Base64Decode(attachment.data) IN
    IF ~debase64d.ok THEN debase64d
    ELSE LET gunzipped == GzipDecode(debase64d.val) IN
    IF ~gunzipped.ok THEN gunzipped
    ELSE LET tarball == TarDecode(gunzipped.val) IN
    IF ~tarball.ok THEN tarball
    ELSE LET valid == ValidateTarball(tarball.val, ServerBuild) IN
    IF valid # Accepted THEN valid
    ELSE Ok([kind |-> "AddVersion", tag |-> tag_name, version |-> versions[version_name],
             tarball |-> Some(Teed(debase64d.val))])

FromDiffMaintainersFirst(old, new) ==
    IF StargazerRuleApplies(old, new) THEN StargazerRule(old, new)
    ELSE IF MaintainerRuleApplies(old, new) THEN MaintainerRule(old, new)
    ELSE IF PublishRuleApplies(new) THEN PublishRule(new)
    ELSE Err("wip")

from_diff(old, new) ==
    IF StargazerRuleApplies(old, new) THEN StargazerRule(old, new)
    ELSE IF PublishRuleApplies(new) THEN PublishRule(new)
    ELSE IF MaintainerRuleApplies(old, new) THEN MaintainerRule(old, new)
    ELSE Err("wip")

\* Inputs.  A packument is the fields from_diff reads.
UserNames == <<"a", "b", "c", "d">>
Stargazers == { UserNames[i] : i \in 1..MaxStargazers }
StargazerMaps == {Absent} \cup { Some(keys) : keys \in SUBSET Stargazers }
MaintainerObjects == { [name |-> Some("a")], [name |-> Some("b")], [name |-> Absent] }
MaintainerLists ==
    {Absent} \cup { Some(l) : l \in UNION { [1..n -> MaintainerObjects] : n \in 0..MaxMaintainers } }

NoPublish == [dist_tags |-> Absent, versions |-> Absent, attachments |-> Absent,
              name |-> Absent, id |-> Absent]
Packument(stargazers, maintainers, publish) ==
    [stargazers |-> stargazers, maintainers |-> maintainers, dist_tags |-> publish.dist_tags,
     versions |-> publish.versions, attachments |-> publish.attachments,
     name |-> publish.name, id |-> publish.id]

EmptyMap == [k \in {} |-> k]
Map(key, value) == [k \in {key} |-> value]
Version(v) == [version |-> v]
PackageJson == [bad |-> FALSE, utf8 |-> TRUE, size |-> ToU64(1), path |-> <<"package", "package.json">>]
IndexJs == [PackageJson EXCEPT !.path = <<"package", "index.js">>]
LibPackageJson == [PackageJson EXCEPT !.path = <<"lib", "package.json">>]
AttachmentData ==
    { Base64Encode(GzipEncode(TarEncode(<<PackageJson>>))),
      Base64Encode(GzipEncode(TarEncode(<<IndexJs, PackageJson>>))),
      Base64Encode(GzipEncode(TarEncode(<<IndexJs>>))),
      Base64Encode(GzipEncode(TarEncode(<<LibPackageJson, PackageJson>>))),
      Base64Encode(GzipEncode(TarEncode(<<PackageJson, LibPackageJson>>))),
      Base64Encode(GzipEncode([text |-> "{}"])),
      Base64Encode(TarEncode(<<PackageJson>>)),
      [text |-> "***"] }
Attachments ==
    [content_type : {"application/octet-stream", "text/plain"}, data : AttachmentData]
DistTagsInputs ==
    { [latest |-> Absent, tags |-> EmptyMap],
      [latest |-> Some(<<"1">>), tags |-> EmptyMap],
      [latest |-> Some(<<"2">>), tags |-> EmptyMap],
      [latest |-> Absent, tags |-> Map("beta", <<"1">>)],
      [latest |-> Some(<<"1">>), tags |-> Map("beta", <<"1">>)],
      [latest |-> Absent, tags |-> [k \in {"beta", "next"} |-> <<"1">>]] }
VersionsInputs == { EmptyMap, Map(<<"1">>, Version(<<"1">>)), Map(<<"2">>, Version(<<"2">>)) }
AttachmentsInputs ==
    {EmptyMap}
    \cup { Map(<<"f", "-", "1">> \o TgzSuffix, a) : a \in Attachments }
    \cup { Map(<<"@", "s", "/", "f", "-", "1">> \o TgzSuffix, a) :
              a \in { b \in Attachments : b.data = Base64Encode(GzipEncode(TarEncode(<<PackageJson>>))) } }
PackageNames ==
    { <<"f">>, <<"@", "s", "/", "f">>, <<"@", "s", "%", "2", "F", "f">>, <<"@", "s">>,
      <<"f", "/", "g">>, <<"f", "%", "F", "F">> }
Option(S) == {Absent} \cup { Some(x) : x \in S }
PublishInputs ==
    [dist_tags : Option(DistTagsInputs), versions : Option(VersionsInputs),
     attachments : Option(AttachmentsInputs), name : Option(PackageNames),
     id : Option({<<"f">>})]

CallFromDiff(old, new) ==
    /\ call' = [fn |-> "from_diff", arg |-> [old |-> old, new |-> new], res |-> from_diff(old, new)]
    /\ UNCHANGED <<rtVars, auVars, policy>>

\* Two slices of the inputs, one call in a behaviour: every pair of stargazer
\* maps and maintainer lists without a publish, and every publish together with a
\* few of them.
DiffSets ==
    /\ call = NoCall
    /\ \E old_stargazers \in StargazerMaps, old_maintainers \in MaintainerLists,
          new_stargazers \in StargazerMaps, new_maintainers \in MaintainerLists :
            CallFromDiff(Packument(old_stargazers, old_maintainers, NoPublish),
                         Packument(new_stargazers, new_maintainers, NoPublish))

DiffPublish ==
    /\ call = NoCall
    /\ \E old_stargazers \in {Absent, Some({"a"})},
          old_maintainers \in {Absent, Some(<<[name |-> Some("a")]>>)},
          new_stargazers \in {Some({"a"}), Some({"a", "b"})},
          new_maintainers \in {Absent, Some(<<[name |-> Some("a")], [name |-> Some("b")]>>)},
          publish \in PublishInputs :
            CallFromDiff(Packument(old_stargazers, old_maintainers, NoPublish),
                         Packument(new_stargazers, new_maintainers, publish))

NextDiff == DiffSets \/ DiffPublish

(***************************************************************************)
(* handlers/v1.rs: put_packument.  The answer is the status code.           *)
(***************************************************************************)
\* Packument::default()
DefaultPackument == Packument(Absent, Absent, NoPublish)

\* fetched is the result of state.fetch_packument(&pkg)
put_packument(pkg, fetched, payload) ==
    IF payload.id # Some(pkg) THEN 400
    ELSE IF ~ParsePackageIdentifier(pkg).ok THEN 400
    ELSE LET old_packument == IF fetched.ok THEN fetched.val ELSE DefaultPackument IN
         IF ~from_diff(old_packument, payload).ok THEN 400
         ELSE 404

PutPaths == { <<"f">>, <<"@", "s">> }
CallPutPackument(pkg, fetched, payload) ==
    /\ call' = [fn |-> "put_packument",
                arg |-> [pkg |-> pkg, fetched |-> fetched, payload |-> payload],
                res |-> put_packument(pkg, fetched, payload)]
    /\ UNCHANGED <<rtVars, auVars, policy>>

\* one PUT in a behaviour, on a package storage holds or fails to fetch
PutStored ==
    /\ call = NoCall
    /\ \E pkg \in PutPaths, id \in Option(PutPaths),
          old_stargazers \in StargazerMaps, old_maintainers \in MaintainerLists,
          new_stargazers \in StargazerMaps, new_maintainers \in MaintainerLists :
            CallPutPackument(pkg, Ok(Packument(old_stargazers, old_maintainers, NoPublish)),
                             Packument(new_stargazers, new_maintainers,
                                       [NoPublish EXCEPT !.id = id]))

PutUnfetched ==
    /\ call = NoCall
    /\ \E pkg \in PutPaths, id \in Option(PutPaths),
          new_stargazers \in StargazerMaps, new_maintainers \in MaintainerLists :
            CallPutPackument(pkg, Err("fetch_packument failed"),
                             Packument(new_stargazers, new_maintainers,
                                       [NoPublish EXCEPT !.id = id]))

NextPut == PutStored \/ PutUnfetched

\* A packument storage holds: the versions published so far, no attachments.
Published(versions) == Packument(Absent, Absent, [NoPublish EXCEPT !.versions = versions])

\* one from_diff in a behaviour, of a stored packument with published versions
\* and a payload that publishes
DiffRepublish ==
    /\ call = NoCall
    /\ \E versions \in Option(VersionsInputs), new_stargazers \in {Absent, Some({"a"})},
          publish \in PublishInputs :
            CallFromDiff(Published(versions), Packument(new_stargazers, Absent, publish))

\* one PUT /f in a behaviour, on a package with published versions
PutRepublish ==
    /\ call = NoCall
    /\ \E versions \in Option(VersionsInputs),
          publish \in { p \in PublishInputs : p.id = Some(<<"f">>) } :
            CallPutPackument(<<"f">>, Ok(Published(versions)), Packument(Absent, Absent, publish))

NextRepublish == DiffRepublish \/ PutRepublish

\* Attachments whose data carries bytes after the gzip stream: none, padding,
\* or the start of a second gzip stream.
TrailingBytes == { <<>>, <<0>>, <<0, 0>>, <<31, 139>> }
TeeArchives == { <<PackageJson>>, <<IndexJs, PackageJson>>, <<IndexJs>> }
TeeAttachments ==
    { Map(<<"f", "-", "1">> \o TgzSuffix,
          [content_type |-> "application/octet-stream",
           data |-> Base64Encode(IF rest = <<>> THEN GzipEncode(TarEncode(entries))
                                 ELSE GzipEncodeThen(TarEncode(entries), rest))]) :
        entries \in TeeArchives, rest \in TrailingBytes }

\* one from_diff in a behaviour, of a publish of f 1 with such an attachment
DiffTee ==
    /\ call = NoCall
    /\ \E dist_tags \in DistTagsInputs, versions \in VersionsInputs,
          attachments \in TeeAttachments, name \in Option({<<"f">>}) :
            CallFromDiff(DefaultPackument,
                         Packument(Absent, Absent,
                                   [dist_tags |-> Some(dist_tags), versions |-> Some(versions),
                                    attachments |-> Some(attachments), name |-> name,
                                    id |-> Some(<<"f">>)]))

NextTee == DiffTee

(***************************************************************************)
(* stores/s3.rs: S3Store::write_packument and write_tarball.  The bucket,    *)
(* the writer tasks and the PUTs issued are the fields of `call`.            *)
(***************************************************************************)
MaxWriters == 2     \* concurrent write calls on one store
Writers == 1..MaxWriters
Bodies == {"a", "b"}
NoObject == "NoSuchKey"     \* the bucket holds nothing under the key

\* format!("packages/{}/packument.json", package_str)
PackumentObjectKey(package) == <<"packages/", package, "/packument.json">>
\* format!("packages/{}/{}.tgz", package_str, version_str)
TarballObjectKey(package, version) == <<"packages/", package, "/", version, ".tgz">>
ObjectKeys == { PackumentObjectKey("f"), TarballObjectKey("f", "1") }

IdleWriter == [pc |-> "idle", op |-> "", key |-> <<>>, body |-> "", head |-> "", put |-> FALSE,
               res |-> ""]
Bucket(objects, writers, puts, first) ==
    [fn |-> "s3", objects |-> objects, writers |-> writers, puts |-> puts, first |-> first]
InBucket == call.fn = "s3"

\* The store as the writes find it: the bucket empty, or holding one of the
\* objects already.
S3Open ==
    /\ call = NoCall
    /\ \E objects \in [ObjectKeys -> Bodies \cup {NoObject}] :
          call' = Bucket(objects, [w \in Writers |-> IdleWriter], [k \in ObjectKeys |-> 0], objects)
    /\ UNCHANGED <<rtVars, auVars, policy>>

\* The answers of head_object: Ok for a key the bucket holds, NoSuchKey or a
\* bare 404 for one it does not hold, another error at any time.
HeadAnswers(objects, key) ==
    (IF objects[key] = NoObject THEN {"NoSuchKey", "Unknown 404"} ELSE {"Ok"}) \cup {"error"}

\* write_packument goes on to put_object after NoSuchKey and after a bare 404,
\* write_tarball after NoSuchKey only.
GoesOn(op, head) == head = "NoSuchKey" \/ (op = "write_packument" /\ head = "Unknown 404")

\* The call up to the answer of the HEAD request.
S3Head(w, op, body, head) ==
    /\ InBucket
    /\ call.writers[w].pc = "idle"
    /\ LET key == IF op = "write_packument" THEN PackumentObjectKey("f")
                  ELSE TarballObjectKey("f", "1")
           started == [IdleWriter EXCEPT !.op = op, !.key = key, !.body = body, !.head = head] IN
       /\ head \in HeadAnswers(call.objects, key)
       /\ call' = [call EXCEPT !.writers[w] =
                      IF head = "Ok"
                      THEN [started EXCEPT !.pc = "done", !.res = "Ok(Some(false))"]
                      ELSE IF GoesOn(op, head) THEN [started EXCEPT !.pc = "put"]
                      ELSE [started EXCEPT !.pc = "done", !.res = "Err"]]
    /\ UNCHANGED <<rtVars, auVars, policy>>

\* self.client.put_object(..).await?; Ok(Some(true)).  A PUT that fails stores
\* nothing.
S3Put(w, ok) ==
    /\ InBucket
    /\ call.writers[w].pc = "put"
    /\ LET writer == call.writers[w]
           key == writer.key IN
       call' = IF ok
               THEN [call EXCEPT !.writers[w] = [writer EXCEPT !.pc = "done", !.put = TRUE,
                                                    !.res = "Ok(Some(true))"],
                                 !.objects[key] = writer.body,
                                 !.puts[key] = @ + 1,
                                 !.first[key] = IF @ = NoObject THEN writer.body ELSE @]
               ELSE [call EXCEPT !.writers[w] = [writer EXCEPT !.pc = "done", !.put = TRUE,
                                                    !.res = "Err"]]
    /\ UNCHANGED <<rtVars, auVars, policy>>

NextS3 ==
    \/ S3Open
    \/ \E w \in Writers, op \in {"write_packument", "write_tarball"}, body \in Bodies,
          head \in {"Ok", "NoSuchKey", "Unknown 404", "error"} : S3Head(w, op, body, head)
    \/ \E w \in Writers, ok \in BOOLEAN : S3Put(w, ok)

(***************************************************************************)
(* handlers/v1.rs: get_tarball and get_scoped_tarball, and the URL that      *)
(* RemoteRegistry::stream_tarball requests.                                  *)
(***************************************************************************)
\* str::get(start..end): the slice, or None when the range is not in the string
Get(str, start, end) ==
    IF start <= end /\ end <= Len(str) THEN Some(SubSeq(str, start + 1, end)) ELSE Absent
EndsWith(str, suffix) ==
    Len(suffix) <= Len(str) /\ SubSeq(str, Len(str) - Len(suffix) + 1, Len(str)) = suffix

Registry == <<"https://registry.npmjs.org">>
TarballUrl(pkg, version) ==
    IF pkg.scope.some
    THEN Registry \o <<"/", "@">> \o pkg.scope.val \o <<"/">> \o pkg.name \o <<"/", "-", "/">>
             \o pkg.name \o <<"-">> \o version \o TgzSuffix
    ELSE Registry \o <<"/">> \o pkg.name \o <<"/", "-", "/">>
             \o pkg.name \o <<"-">> \o version \o TgzSuffix

\* tarball.get(pkg.name.len() + 1..tarball.len() - 4)
TarballVersionToEnd(tarball, name) == Get(tarball, Len(name) + 1, Len(tarball))
TarballVersion(tarball, name) == Get(tarball, Len(name) + 1, Len(tarball) - 4)

\* The answer: the status (or the panic of an unwrap), and the call made to
\* storage with the URL it requests.  streamed is whether stream_tarball succeeds.
TarballAnswer(status, request) == [status |-> status, request |-> request]
get_tarball(pkg, tarball, streamed) ==
    LET parsed == ParsePackageIdentifier(pkg) IN
    IF ~parsed.ok THEN TarballAnswer("panic: Result::unwrap() on an Err value", Absent)
    ELSE LET name == parsed.val.name IN
         IF \/ ~HasPrefix(tarball, name)
            \/ Get(tarball, Len(name), Len(name) + 1) # Some(<<"-">>)
            \/ ~EndsWith(tarball, TgzSuffix)
         THEN TarballAnswer("400", Absent)
         ELSE LET version == TarballVersion(tarball, name) IN
              IF ~version.some
              THEN TarballAnswer("panic: Option::unwrap() on a None value", Absent)
              ELSE TarballAnswer(IF streamed THEN "200" ELSE "500",
                                 Some([pkg |-> parsed.val, version |-> version.val,
                                       url |-> TarballUrl(parsed.val, version.val)]))

get_scoped_tarball(scope, pkg, tarball, streamed) ==
    get_tarball(<<"@">> \o scope \o <<"/">> \o pkg, tarball, streamed)

\* Inputs: path segments, and tails put together from pieces around the shape
\* name-version.tgz
Segments == { <<"f">>, <<"f", "o">>, <<"@", "s">>, <<"f", "%", "2", "F", "g">>, <<>> }
TailNames == { <<>>, <<"f">>, <<"f", "o">>, <<"o">> }
TailDashes == { <<>>, <<"-">>, <<"-", "-">>, <<"1">> }
TailVersions == { <<>>, <<"1">>, <<"1", "-", "1">>, <<"1">> \o TgzSuffix }
TailSuffixes == { <<>>, TgzSuffix, <<".", "t", "g">>, <<"t", "g", "z">>, TgzSuffix \o <<"1">> }
Tails == { n \o d \o v \o x : n \in TailNames, d \in TailDashes, v \in TailVersions, x \in TailSuffixes }

CallTarball(route, pkg, tarball, answer) ==
    /\ call' = [fn |-> route, arg |-> [pkg |-> pkg, tarball |-> tarball], res |-> answer]
    /\ UNCHANGED <<rtVars, auVars, policy>>

GetTarball ==
    /\ call = NoCall
    /\ \E pkg \in Segments, tarball \in Tails, streamed \in BOOLEAN :
          CallTarball("get_tarball", pkg, tarball, get_tarball(pkg, tarball, streamed))

GetScopedTarball ==
    /\ call = NoCall
    /\ \E scope \in Segments, pkg \in Segments, tarball \in Tails, streamed \in BOOLEAN :
          CallTarball("get_scoped_tarball", <<"@">> \o scope \o <<"/">> \o pkg, tarball,
                      get_scoped_tarball(scope, pkg, tarball, streamed))

NextTarball == GetTarball \/ GetScopedTarball

(***************************************************************************)
(* handlers/v1.rs: what the handlers do with their URL parameters.          *)
(***************************************************************************)
get_packument(pkg, streamed) ==
    IF ~ParsePackageIdentifier(pkg).ok THEN "400"
    ELSE IF ~streamed THEN "500"
    ELSE "200"

get_scoped_packument(scope, pkg, streamed) ==
    get_packument(<<"@">> \o scope \o <<"/">> \o pkg, streamed)

\* session.parse::<SessionId>(): the text of a session id, or an error
SessionText(id) == <<Digits[id]>>
ParseSessionId(str) ==
    IF \E id \in SessionIds : str = SessionText(id)
    THEN Ok(CHOOSE id \in SessionIds : str = SessionText(id))
    ELSE Err("invalid session id")
SessionSegments == { SessionText(id) : id \in SessionIds } \cup { <<"x">>, <<"1", "1">> }

\* get_login_poll and www_login up to the call of the authenticator: the parsed
\* session handed on, or the panic of todo!()
LoginPollSession(session) ==
    IF ~ParseSessionId(session).ok THEN "panic: not yet implemented"
    ELSE "poll_login_session"
WwwLoginSession(session) ==
    IF session.some /\ ~ParseSessionId(session.val).ok
    THEN "panic: not yet implemented: invalid session id, bailing..."
    ELSE "complete_login_session"

CallHandler(route, arg, answer) ==
    /\ call' = [fn |-> route, arg |-> arg, res |-> answer]
    /\ UNCHANGED <<rtVars, auVars, policy>>

GetPackument ==
    /\ call = NoCall
    /\ \E pkg \in Segments, streamed \in BOOLEAN :
          CallHandler("get_packument", [pkg |-> pkg], get_packument(pkg, streamed))

GetScopedPackument ==
    /\ call = NoCall
    /\ \E scope \in Segments, pkg \in Segments, streamed \in BOOLEAN :
          CallHandler("get_scoped_packument", [pkg |-> <<"@">> \o scope \o <<"/">> \o pkg],
                      get_scoped_packument(scope, pkg, streamed))

GetLoginPoll ==
    /\ call = NoCall
    /\ \E session \in SessionSegments :
          CallHandler("get_login_poll", [session |-> Some(session)], LoginPollSession(session))

WwwLogin ==
    /\ call = NoCall
    /\ \E session \in Option(SessionSegments) :
          CallHandler("www_login", [session |-> session], WwwLoginSession(session))

NextParams ==
    \/ GetPackument \/ GetScopedPackument \/ PutUnfetched
    \/ GetTarball \/ GetScopedTarball \/ GetLoginPoll \/ WwwLogin

(***************************************************************************)
(* Calls of PackageIdentifier::from_str on every short path segment.        *)
(***************************************************************************)
MaxSegment == 5     \* characters in a path segment

SegmentChars == {"@", "/", "f", "%", "2", "5", "F"}
SegmentInputs == UNION { [1..n -> SegmentChars] : n \in 0..MaxSegment }

FromStr ==
    /\ call = NoCall
    /\ \E str \in SegmentInputs :
          call' = [fn |-> "PackageIdentifier::from_str", arg |-> str,
                   res |-> ParsePackageIdentifier(str)]
    /\ UNCHANGED <<rtVars, auVars, policy>>

NextFromStr == FromStr

(***************************************************************************)
(* Calls of Maintainer::into_object on objects and on bylines put together   *)
(* as name [<email>] [(url)].                                                *)
(***************************************************************************)
BylineNames == { <<"n">>, <<"n", Space, "n", ".">>, <<Space, "n">>, <<"n", ">", ")">> }
BylineGaps == { <<>>, <<Space>>, <<Space, Space>> }
BylineEmails == Option({ <<"e">>, <<"e", "@", "e">>, <<"e", Space, "(", "e", ")">> })
BylineUrls == Option({ <<"u">>, <<"u", "<", "u", ">">> })
Bracketed(open, part, close) == IF part.some THEN <<open>> \o part.val \o <<close>> ELSE <<>>
Byline(name, gap, email, url) ==
    name \o gap \o Bracketed("<", email, ">") \o gap \o Bracketed("(", url, ")")
ObjectMaintainers ==
    { MaintainerObject(name, email, url) :
        name \in Option({<<"n">>}), email \in Option({<<Space, "e">>}), url \in Option({<<"u">>}) }

IntoObjectOfByline ==
    /\ call = NoCall
    /\ \E name \in BylineNames, gap \in BylineGaps, email \in BylineEmails, url \in BylineUrls :
          call' = [fn |-> "Maintainer::into_object",
                   arg |-> [byline |-> Byline(name, gap, email, url)],
                   parts |-> [name |-> name, email |-> email, url |-> url],
                   res |-> IntoObject([byline |-> Byline(name, gap, email, url)])]
    /\ UNCHANGED <<rtVars, auVars, policy>>

IntoObjectOfObject ==
    /\ call = NoCall
    /\ \E object \in ObjectMaintainers :
          call' = [fn |-> "Maintainer::into_object", arg |-> object, parts |-> object,
                   res |-> IntoObject(object)]
    /\ UNCHANGED <<rtVars, auVars, policy>>

NextIntoObject == IntoObjectOfByline \/ IntoObjectOfObject

(***************************************************************************)
(* read_through.rs: the cache keys as text, for the packages and versions    *)
(* the handlers hand to storage.                                             *)
(***************************************************************************)
MaxKeyText == 3     \* characters in a package name or a version
KeyChars == {"a", ":"}
KeyTexts == UNION { [1..n -> KeyChars] : n \in 1..MaxKeyText }

\* format!("packument:{}", name)
StreamPackumentKey(name) == <<"packument:">> \o Render(name)
\* format!("tarball:{}:{}", name, version)
StreamTarballKey(name, version) == <<"tarball:">> \o Render(name) \o <<":">> \o version

\* GET /:pkg/-/*tarball and GET /@:scope/:pkg/-/*tarball for a tail of the shape
\* name-version.tgz
TarballRequests ==
    { [pkg |-> scope \o name, tarball |-> name \o <<"-">> \o version \o TgzSuffix] :
        scope \in { <<>>, <<"@", "s", "/">> }, name \in KeyTexts, version \in KeyTexts }
\* GET /:pkg and GET /@:scope/:pkg
PackumentRequests ==
    { scope \o name : scope \in { <<>>, <<"@", "s", "/">>, <<"@", "/">> }, name \in KeyTexts }

\* The key stream_tarball opens for the request, when get_tarball gets that far.
TarballKeyOf(request) ==
    LET answer == get_tarball(request.pkg, request.tarball, TRUE) IN
    IF answer.request.some
    THEN Some([pkg |-> answer.request.val.pkg, version |-> answer.request.val.version,
               key |-> StreamTarballKey(answer.request.val.pkg, answer.request.val.version)])
    ELSE Absent
\* The key stream_packument opens for the request, when get_packument gets that far.
PackumentKeyOf(pkg) ==
    LET parsed == ParsePackageIdentifier(pkg) IN
    IF parsed.ok THEN Some([pkg |-> parsed.val, key |-> StreamPackumentKey(parsed.val)])
    ELSE Absent

\* two tarball requests, or two packument requests, in a behaviour
TarballKeys ==
    /\ call = NoCall
    /\ \E one \in TarballRequests, other \in TarballRequests :
          call' = [fn |-> "stream_tarball", arg |-> <<one, other>>,
                   res |-> <<TarballKeyOf(one), TarballKeyOf(other)>>]
    /\ UNCHANGED <<rtVars, auVars, policy>>
PackumentKeys ==
    /\ call = NoCall
    /\ \E one \in PackumentRequests, other \in PackumentRequests :
          call' = [fn |-> "stream_packument", arg |-> <<one, other>>,
                   res |-> <<PackumentKeyOf(one), PackumentKeyOf(other)>>]
    /\ UNCHANGED <<rtVars, auVars, policy>>

NextKeys == TarballKeys \/ PackumentKeys

(***************************************************************************)
(* stores/remote.rs: the rewrite of one dist.tarball string, for the base    *)
(* URLs a store can be configured with.                                      *)
(***************************************************************************)
MaxUrl == 3         \* characters in a dist.tarball string
UrlChars == {"a", "b"}
TarballStrings == UNION { [1..n -> UrlChars] : n \in 0..MaxUrl }
BaseUrls == UNION { [1..n -> UrlChars] : n \in 1..2 }

\* version_data.dist.tarball.replace(&self.upstream_url, &self.public_hostname)
RewriteTarball(tarball, upstream_url, public_hostname) ==
    Replace(tarball, upstream_url, public_hostname)

\* one dist.tarball string in a behaviour, passed through the rewrite and its
\* result passed through it again
RewriteTwice ==
    /\ call = NoCall
    /\ \E tarball \in TarballStrings, upstream_url \in BaseUrls, public_hostname \in BaseUrls :
          LET once == RewriteTarball(tarball, upstream_url, public_hostname) IN
          call' = [fn |-> "rewrite",
                   arg |-> [tarball |-> tarball, upstream_url |-> upstream_url,
                            public_hostname |-> public_hostname],
                   res |-> once,
                   again |-> RewriteTarball(once, upstream_url, public_hostname)]
    /\ UNCHANGED <<rtVars, auVars, policy>>

NextRewrite == RewriteTwice

(***************************************************************************)
(* handlers::v1::get_user: the user lookup behind /-/user/org.couchdb.user:user *)
(***************************************************************************)
\* Authenticator::get_user as the trait provides it; neither Policy nor
\* OAuthAuthenticator defines its own, so this body answers for every state.
AuthenticatorGetUser(username) == Ok(Absent)

\* InMemoryUserStorage::get_user: the registered user, or Err("no such user").
UserStorageGetUser(registered, username) ==
    IF username \in registered THEN Ok(username) ELSE Err("no such user")

\* The text the route /-/user/org.couchdb.user:user binds to `user` for the
\* request path /-/user/org.couchdb.user<param>.
UserParams == {<<":", name>> : name \in Logins} \cup {<<name>> : name \in Logins}

\* GET /-/user/org.couchdb.user:user: get_user strips the ':' the parameter begins
\* with (404 without one), asks Authenticator::get_user, and answers 404 unless
\* that returned Ok(Some(user)).
get_user(param) ==
    IF Len(param) = 0 \/ Head(param) # ":" THEN Respond("get_user", "404")
    ELSE LET username == param[2]
             found == AuthenticatorGetUser(username) IN
         IF found.ok /\ found.val.some
         THEN [Respond("get_user", "200") EXCEPT !.user = found.val.val]
         ELSE Respond("get_user", "404")

GetUser(c, param) ==
    /\ Ready(c)
    /\ Return(au, c, get_user(param))
    /\ UNCHANGED <<login_sessions, sessions_lock, token_sessions, users, cookies, ids>>
    /\ UNCHANGED <<rtVars, fnVars>>

\* The login flow up to the callback's register_user, and the user lookup.
NextUsers ==
    \/ \E c \in Clients : PostLogin(c)
    \/ \E c \in Clients, s \in SessionIds, t \in CsrfTokens \cup {NoCsrf} : Redirect(c, s, t)
    \/ \E c \in Clients, q \in Queries, k \in SessionIds \cup {NoSid} : CallbackBegin(c, q, k)
    \/ \E c \in Clients, transportOk \in BOOLEAN : CallbackFinish(c, transportOk)
    \/ \E c \in Clients, param \in UserParams : GetUser(c, param)

(***************************************************************************)
(* Initial state                                                           *)
(***************************************************************************)

InitRT ==
    /\ cache = [k \in Keys |-> NoEntry]
    /\ rt = [r \in Reqs |-> IdleReq]

InitAuth ==
    /\ login_sessions = <<>>
    /\ sessions_lock = NoOne
    /\ token_sessions = <<>>
    /\ users = {}
    /\ cookies = {}
    /\ ids = [session |-> 0, token |-> 0]
    /\ au = [c \in Clients |-> IdleClient]
    /\ out = NoAuResp

InitFn == call = NoCall /\ policy = PolicyNew

Init == InitRT /\ InitAuth /\ InitFn

SpecRT == Init /\ [][NextRT]_vars
SpecAuth == Init /\ [][NextAuth]_vars

\* The steps of request task r once its call has started.  The runtime polls
\* every task that can go on, and a finite upstream stream comes to its end, so
\* a step that stays possible is taken.
Proceed(r) ==
    \/ FetchFails(r)
    \/ \E status \in Statuses : Fetch(r, status)
    \/ \E n \in 1..MaxChunk : NextChunk(r, n)
    \/ NextError(r)
    \/ NextEnd(r)
    \/ Commit(r)
    \/ Reopen(r)
SpecRTFair == SpecRT /\ \A r \in Reqs : WF_vars(Proceed(r))

\* The token authorizer on its own: any sequence of its operations.
NextTokens ==
    \/ \E c \in Clients, user \in Logins : StartSession(c, user)
    \/ \E c \in Clients, token \in 0..MaxTokens : Whoami(c, token)

SpecTokens == Init /\ [][NextTokens]_vars
SpecPolicy == Init /\ [][NextPolicy]_vars
SpecTar == Init /\ [][NextTar]_vars
SpecDiff == Init /\ [][NextDiff]_vars
SpecEntries == Init /\ [][NextEntries]_vars
SpecPut == Init /\ [][NextPut]_vars
SpecTarball == Init /\ [][NextTarball]_vars
SpecParams == Init /\ [][NextParams]_vars
SpecFromStr == Init /\ [][NextFromStr]_vars
SpecIntoObject == Init /\ [][NextIntoObject]_vars
SpecUsers == Init /\ [][NextUsers]_vars
SpecRepublish == Init /\ [][NextRepublish]_vars
SpecTee == Init /\ [][NextTee]_vars
SpecS3 == Init /\ [][NextS3]_vars
SpecKeys == Init /\ [][NextKeys]_vars
SpecRewrite == Init /\ [][NextRewrite]_vars

\* Authorization headers: every capitalisation of the scheme word, or another
\* scheme, then a space, then the text of a token id or a text that names none,
\* with or without padding.
BearerWord == <<"b", "e", "a", "r", "e", "r">>
UpperCase == [ch \in {"b", "e", "a", "r"} |->
                 IF ch = "b" THEN "B" ELSE IF ch = "e" THEN "E" ELSE IF ch = "a" THEN "A" ELSE "R"]
Capitalisations ==
    { [i \in 1..Len(BearerWord) |-> IF i \in S THEN UpperCase[BearerWord[i]] ELSE BearerWord[i]] :
        S \in SUBSET (1..Len(BearerWord)) }
Schemes == Capitalisations \cup { <<"B", "a", "s", "i", "c">> }
TokenTexts == { TokenText(t) : t \in 1..MaxTokens } \cup { <<"x">>, <<>> }
Headers ==
    {NoHeader} \cup { scheme \o <<Space>> \o pad \o text :
                        scheme \in Schemes, pad \in {<<>>, <<Space>>}, text \in TokenTexts }

\* The token sessions that exist when the call is made.
BearerSetup(c, user) == call = NoCall /\ StartSession(c, user)

NextBearer ==
    \/ \E c \in Clients, user \in Logins : BearerSetup(c, user)
    \/ \E header \in Headers : CallAuthenticateSession(header)

SpecBearer == Init /\ [][NextBearer]_vars

(***************************************************************************)
(* Properties of the read-through storage                                  *)
(***************************************************************************)
Is2xx(status) == status >= 200 /\ status <= 299
Finished(r) == rt[r].pc = "done"

\* C1: when the upstream stream yields an error during a fill, the writer is
\* dropped without commit: nothing this fill received becomes readable under the
\* key, and the caller gets an error instead of content.
C1_ErrorFillNeverCommits ==
    \A r \in Reqs :
        rt[r].upErr => /\ ~rt[r].committed.found
                       /\ rt[r].resp.code # 200

\* C4: a miss whose upstream stream ends without error commits exactly the
\* concatenation of the upstream chunks, streams exactly those bytes to the caller,
\* and the key keeps reading as those bytes afterwards.
C4_FillIsByteExact ==
    \A r \in Reqs :
        (Finished(r) /\ rt[r].status # 0 /\ ~rt[r].upErr /\ rt[r].committed.found) =>
            /\ rt[r].arrived = UpstreamBody(rt[r].target, rt[r].status)
            /\ rt[r].committed = Entry(rt[r].arrived)
            /\ rt[r].resp = RespondStream(rt[r].arrived)
            /\ cache[CacheKey(rt[r].target)] = Entry(rt[r].arrived)

\* C5: once content is committed under a key, the bytes readable under that key
\* never change, whatever other in-flight fills of the key do.
C5_CommittedContentNeverChanges ==
    [][\A k \in Keys : cache[k].found => cache'[k] = cache[k]]_vars

\* C6: a packument served by the read-through storage (cold read or cache hit) is
\* the upstream document with the upstream base URL replaced by the public base
\* URL in dist.tarball, and is otherwise identical to it.
C6_ServedPackumentIsRewritten ==
    \A r \in Reqs :
        (/\ Finished(r) /\ rt[r].target.kind = "packument" /\ rt[r].resp.code = 200
         /\ \/ rt[r].status = 200 /\ ~rt[r].upErr
            \/ rt[r].hit /\ rt[r].resp.body \in {UpstreamContent(rt[r].target),
                                                 RewritePackument(UpstreamContent(rt[r].target))})
        => rt[r].resp.body = RewritePackument(UpstreamContent(rt[r].target))

C8_Non2xxIsAnError ==
    \A r \in Reqs :
        (rt[r].status # 0 /\ ~Is2xx(rt[r].status)) =>
            /\ Finished(r)
            /\ rt[r].resp = RespondError
            /\ ~rt[r].committed.found

(***************************************************************************)
(* Login properties                                                        *)
(***************************************************************************)
Known(s) == s \in DOMAIN login_sessions
CsrfMismatch == Panic("callback", "csrf token mismatch")
UnknownSession(op) == Panic(op, "unrecognized login session")
CallbackSuccess == Respond("callback", "200")

\* C2: a callback whose state differs from the csrftoken its session holds (unset,
\* or superseded by a later redirect) fails with "csrf token mismatch" before the
\* code exchange and leaves the session as it was; a session's user is only ever
\* written by a callback that presented the token the session holds.
\* (The sid cookie is signed and handed out by the redirect that stores the token,
\* so a callback reaches a session whose token is unset only without a cookie; a
\* superseded token is one of the values the session no longer holds.)
C2_Step ==
    /\ \A k \in DOMAIN login_sessions, q \in Queries \ {NoQuery} :
          q.state # login_sessions[k].csrftoken =>
              \A c \in Clients :
                  CallbackBegin(c, q, k) =>
                      /\ out' = CsrfMismatch
                      /\ au'[c].pc = "idle"
                      /\ sessions_lock' = NoOne
                      /\ login_sessions' = login_sessions
    /\ \A s \in DOMAIN login_sessions :
          (s \in DOMAIN login_sessions' /\ login_sessions'[s].user # login_sessions[s].user) =>
              \E c \in Clients :
                  /\ au[c].pc = "exchange"
                  /\ au[c].sid = s
                  /\ au[c].state # NoCsrf
                  /\ au[c].state = login_sessions[s].csrftoken

C3_Step ==
    /\ \A c \in Clients, s \in SessionIds :
          (PollRead(c, s) /\ Alone(c, s)) =>
              /\ ~Known(s) => /\ out' = UnknownSession("poll")
                              /\ au'[c].pc = "idle"
              /\ (Known(s) /\ login_sessions[s].user = None) =>
                              /\ out' = Respond("poll", "202")
                              /\ au'[c].pc = "idle"
              /\ (Known(s) /\ login_sessions[s].user # None) =>
                              /\ au'[c].pc = "remove"
                              /\ au'[c].quiet
                              /\ au'[c].seen = login_sessions[s].user
              /\ login_sessions' = login_sessions
    /\ \A c \in Clients :
          (PollRemove(c) /\ au[c].quiet) =>
              /\ au'[c].pc = "start_session"
              /\ au'[c].ret = au[c].seen
              /\ DOMAIN login_sessions' = DOMAIN login_sessions \ {au[c].sid}
              /\ \A x \in DOMAIN login_sessions' : login_sessions'[x] = login_sessions[x]
    /\ \A s \in 1..ids.session : ~Known(s) => s \notin DOMAIN login_sessions'

C3_PollIsSequentiallyCorrect == [][C3_Step]_vars

\* A poll took the user out of a session and a later poll of that id failed.
C3_Witness ==
    /\ out = UnknownSession("poll")
    /\ ids.token > 0
    /\ \A s \in 1..ids.session : ~Known(s)

\* C9: the callback answers 200 only when it has written the authenticated user
\* into the session of the sid cookie; a callback that authenticates nobody never
\* answers 200.
C9_Step ==
    \A c \in Clients :
        (/\ out' = CallbackSuccess
         /\ \/ \E q \in Queries, k \in SessionIds \cup {NoSid} : CallbackBegin(c, q, k)
            \/ \E transportOk \in BOOLEAN : CallbackFinish(c, transportOk))
        => /\ au[c].pc = "exchange"
           /\ login_sessions'[au[c].sid].user = ProfileLogin(au[c].code)

C9_CallbackSuccessOnlyAfterUserWritten == [][C9_Step]_vars

\* C10: a poll of a session that has no user yet answers 202; a callback with the
\* matching state and cookie whose exchange and profile fetch succeed writes the
\* profile's login into the session; the next poll of it answers 200 with a token
\* bound to that user; the token keeps its user and /-/whoami answers 200 with it.
C10_Step ==
    /\ \A c \in Clients, s \in SessionIds :
          (PollRead(c, s) /\ Known(s) /\ login_sessions[s].user = None) =>
              out' = Respond("poll", "202")
    /\ \A c \in Clients :
          (CallbackFinish(c, TRUE) /\ au[c].state = login_sessions[au[c].sid].csrftoken) =>
              /\ out' = CallbackSuccess
              /\ login_sessions'[au[c].sid].user = ProfileLogin(au[c].code)
              /\ ProfileLogin(au[c].code) \in users'
    /\ \A c \in Clients, s \in SessionIds :
          (PollRead(c, s) /\ Alone(c, s) /\ Known(s) /\ login_sessions[s].user # None) =>
              /\ au'[c].pc = "remove"
              /\ au'[c].seen = login_sessions[s].user
              /\ au'[c].quiet
    /\ \A c \in Clients :
          (PollRemove(c) /\ au[c].quiet) =>
              /\ au'[c].pc = "start_session"
              /\ au'[c].ret = au[c].seen
    /\ \A c \in Clients :
          PollStartSession(c) =>
              /\ out'.op = "poll" /\ out'.code = "200"
              /\ out'.token \in DOMAIN token_sessions' \ DOMAIN token_sessions
              /\ token_sessions'[out'.token] = au[c].ret
    /\ \A t \in DOMAIN token_sessions :
          t \in DOMAIN token_sessions' /\ token_sessions'[t] = token_sessions[t]
    /\ \A c \in Clients, t \in DOMAIN token_sessions :
          Whoami(c, t) => out' = [Respond("whoami", "200") EXCEPT !.user = token_sessions[t]]

C10_LoginHappyPath == [][C10_Step]_vars

\* /-/whoami answered 200 with the user of a token that a poll handed out after a
\* callback registered that user.
C10_Witness ==
    /\ out.op = "whoami" /\ out.code = "200"
    /\ out.user \in users
    /\ \E t \in DOMAIN token_sessions : token_sessions[t] = out.user

\* C11: a token authenticates as user u exactly when start_session(u) returned it:
\* start_session binds a token nobody held to its user and leaves the others
\* alone, no other operation adds, drops or rebinds a token session, and /-/whoami
\* answers 200 with u's name for such a token and 401 for a missing or unusable
\* header and for a token that was never handed out.
C11_Step ==
    /\ \A c \in Clients, u \in Logins :
          StartSession(c, u) =>
              /\ out'.token \notin DOMAIN token_sessions
              /\ DOMAIN token_sessions' = DOMAIN token_sessions \cup {out'.token}
              /\ token_sessions'[out'.token] = u
    /\ \A t \in DOMAIN token_sessions :
          t \in DOMAIN token_sessions' /\ token_sessions'[t] = token_sessions[t]
    /\ DOMAIN token_sessions' # DOMAIN token_sessions =>
          \E c \in Clients, u \in Logins : StartSession(c, u)
    /\ \A c \in Clients, t \in 0..MaxTokens :
          Whoami(c, t) =>
              out' = IF t \in DOMAIN token_sessions
                     THEN [Respond("whoami", "200") EXCEPT !.user = token_sessions[t]]
                     ELSE Respond("whoami", "401")

C11_TokenAuthenticatesItsUser == [][C11_Step]_vars

\* With the tokens of two users handed out, /-/whoami answered 200 with the name of
\* the first token's user.
C11_Witness ==
    /\ \E t1, t2 \in DOMAIN token_sessions : token_sessions[t1] # token_sessions[t2]
    /\ out = [Respond("whoami", "200") EXCEPT !.user = token_sessions[1]]

\* C12: GET /-/v1/login/poll/{session} answers 200 with a token exactly when the
\* authenticator returned the session's user, and has then started one token
\* session for that user; answers 202 (retry-after: 5) and starts no token session
\* while the login is pending; answers 401 when the login session is unknown,
\* a session consumed by an earlier successful poll included.
C12_Step ==
    /\ \A c \in Clients, s \in SessionIds :
          PollRead(c, s) =>
              /\ ~Known(s) => out' = Respond("poll", "401")
              /\ (Known(s) /\ login_sessions[s].user = None) => out' = Respond("poll", "202")
              /\ token_sessions' = token_sessions
    /\ \A c \in Clients :
          PollRemove(c) =>
              /\ au'[c].pc = "idle" => out' = Respond("poll", "202")
              /\ token_sessions' = token_sessions
    /\ \A c \in Clients :
          PollStartSession(c) =>
              /\ out'.op = "poll" /\ out'.code = "200"
              /\ DOMAIN token_sessions' = DOMAIN token_sessions \cup {out'.token}
              /\ out'.token \notin DOMAIN token_sessions
              /\ token_sessions'[out'.token] = au[c].ret
    /\ (out' # out /\ out'.op = "poll" /\ out'.code = "200") =>
          \E c \in Clients : au[c].pc = "start_session" /\ au[c].ret # None

C12_PollHandlerAnswers == [][C12_Step]_vars

\* C13: authenticate_session matches the scheme word of the Authorization header
\* without regard to case: for every capitalisation of "bearer" followed by a
\* space and the text of a token, the result is authenticate_session_bearer of
\* that token.
C13_BearerSchemeAnyCase ==
    \A scheme \in Capitalisations, t \in 1..MaxTokens :
        (call.fn = "authenticate_session" /\ call.arg = scheme \o <<Space>> \o TokenText(t))
            => call.res = AuthenticateSessionBearer(t)

\* C14: every operation served by a slot of the Policy that is still unfilled
\* fails with the not-implemented error; none returns a success value.
C14_UnfilledSlotsFail ==
    (call.fn = "policy" /\ call.arg.policy[call.arg.op.slot] = NotImplemented)
        => call.res = NotImplementedError

\* The sizes of the first n entries add up to more than MAX_UNPACKED_SIZE (the sum
\* taken in the integers, not in 64 bits).
RECURSIVE SumExceeds(_, _, _)
SumExceeds(entries, n, sum) ==
    IF n = 0 THEN Gt(sum, ToU64(MAX_UNPACKED_SIZE))
    ELSE \/ Overflows(sum, entries[n].size, 64)
         \/ SumExceeds(entries, n - 1, WrappingAdd(sum, entries[n].size, 64))
ExceedsAtSomeEntry(entries) ==
    \E n \in 1..Len(entries) : SumExceeds(SubSeq(entries, 1, n), n, ToU64(0))
WellFormed(entries) ==
    /\ \A i \in 1..Len(entries) :
          ~entries[i].bad /\ entries[i].utf8 /\ HasPackagePrefix(entries[i].path)
    /\ \E i \in 1..Len(entries) : entries[i].path = <<"package", "package.json">>

\* C20: an archive whose entry sizes sum to exactly MAX_UNPACKED_SIZE is accepted
\* if it is otherwise valid, and an archive whose running sum of entry sizes
\* exceeds MAX_UNPACKED_SIZE at some entry is never accepted, for every entry size
\* of 64 bits: the sum does not wrap around.
C20_SizeLimitIsExact ==
    call.fn = "validate_tarball" =>
        LET entries == call.arg.entries IN
        /\ ExceedsAtSomeEntry(entries) => call.res # Accepted
        /\ (WellFormed(entries) /\ ~ExceedsAtSomeEntry(entries)) => call.res = Accepted

\* The recognized changes between the old and the new packument of a call.
StargazersChanged == StargazerRuleApplies(call.arg.old, call.arg.new)
MaintainersChanged == MaintainerRuleApplies(call.arg.old, call.arg.new)
PublishPresent == PublishRuleApplies(call.arg.new)
ChangesPresent ==
    Cardinality({ c \in {"stargazers", "maintainers", "publish"} :
                    \/ c = "stargazers" /\ StargazersChanged
                    \/ c = "maintainers" /\ MaintainersChanged
                    \/ c = "publish" /\ PublishPresent })

\* C15: from_diff returns a modification only when exactly one recognized change
\* (stargazer set, maintainer set, publish of a version) is present; when the new
\* packument differs from the old in more than one of them the call is an error.
C15_OneChangePerDiff ==
    (call.fn = "from_diff" /\ call.res.ok) => ChangesPresent = 1

\* The name sets of a call (empty where the packument carries none).
KeysOf(option) == IF option.some THEN option.val ELSE {}
NamesOf(option) == IF option.some THEN MaintainerNames(option.val) ELSE {}
OldStars == KeysOf(call.arg.old.stargazers)
NewStars == KeysOf(call.arg.new.stargazers)
OldMaintainers == NamesOf(call.arg.old.maintainers)
NewMaintainers == NamesOf(call.arg.new.maintainers)
SymDiff(a, b) == (a \ b) \cup (b \ a)
Removes(old_set, new_set, x) == x \in old_set /\ new_set = old_set \ {x}
Adds(old_set, new_set, x) == x \notin old_set /\ new_set = old_set \cup {x}

\* C16: a returned RemoveStar(x), AddStar(x), RemoveMaintainer(x) or
\* AddMaintainer(x) means the old and new name sets differ by exactly x (new is old
\* without x, respectively old with x), and a call whose stargazer keys or
\* maintainer names (carried by both packuments) differ by more than one element
\* is an error.
C16_SetChangeIsOneElement ==
    (call.fn = "from_diff" /\ call.res.ok) =>
        LET m == call.res.val IN
        /\ m.kind = "RemoveStar" => Removes(OldStars, NewStars, m.name)
        /\ m.kind = "AddStar" => Adds(OldStars, NewStars, m.name)
        /\ m.kind = "RemoveMaintainer" => Removes(OldMaintainers, NewMaintainers, m.name)
        /\ m.kind = "AddMaintainer" => Adds(OldMaintainers, NewMaintainers, m.name)
        /\ (call.arg.old.stargazers.some /\ call.arg.new.stargazers.some)
               => Cardinality(SymDiff(OldStars, NewStars)) <= 1
        /\ (call.arg.old.maintainers.some /\ call.arg.new.maintainers.some)
               => Cardinality(SymDiff(OldMaintainers, NewMaintainers)) <= 1

StarKinds == {"AddStar", "RemoveStar"}
MaintainerKinds == {"AddMaintainer", "RemoveMaintainer"}
Decides(rule_result, kinds) ==
    /\ call.res = rule_result
    /\ call.res.ok => call.res.val.kind \in kinds

\* C17: from_diff applies its rules in a fixed order and the first applicable one
\* decides alone: the stargazer rule if both packuments carry stargazers with
\* different keys; else the publish rule if the new packument carries versions,
\* attachments and dist-tags describing exactly one tag (its failures are the
\* call's errors); else the maintainer rule if both carry maintainers with
\* different names; else the call fails.  AddTag and RemoveTag are never returned.
C17_RulesInFixedOrder ==
    call.fn = "from_diff" =>
        LET old == call.arg.old
            new == call.arg.new
        IN
        /\ StargazersChanged => Decides(StargazerRule(old, new), StarKinds)
        /\ (~StargazersChanged /\ PublishPresent) => Decides(PublishRule(new), {"AddVersion"})
        /\ (~StargazersChanged /\ ~PublishPresent /\ MaintainersChanged)
               => Decides(MaintainerRule(old, new), MaintainerKinds)
        /\ (~StargazersChanged /\ ~PublishPresent /\ ~MaintainersChanged) => ~call.res.ok
        /\ call.res.ok => call.res.val.kind \notin {"AddTag", "RemoveTag"}

\* a publish that fails while a maintainer change the third rule would accept is
\* also present: the call is an error, the maintainer rule is not consulted
C17_Witness ==
    /\ call.fn = "from_diff"
    /\ ~StargazersChanged /\ PublishPresent /\ MaintainersChanged
    /\ ~call.res.ok
    /\ MaintainerRule(call.arg.old, call.arg.new).ok

\* The parts of the publish a call describes (read only where PublishPresent).
TaggedVersion ==
    LET dist_tags == call.arg.new.dist_tags.val IN
    IF dist_tags.latest.some THEN dist_tags.latest.val
    ELSE dist_tags.tags[CHOOSE k \in DOMAIN dist_tags.tags : TRUE]
TagName ==
    LET dist_tags == call.arg.new.dist_tags.val IN
    IF dist_tags.latest.some THEN "latest" ELSE CHOOSE k \in DOMAIN dist_tags.tags : TRUE
GivenName == IF call.arg.new.name.some THEN call.arg.new.name ELSE call.arg.new.id
NameParses == GivenName.some /\ ParsePackageIdentifier(GivenName.val).ok
ExpectedAttachment ==
    ParsePackageIdentifier(GivenName.val).val.name \o <<"-">> \o TaggedVersion \o <<".", "t", "g", "z">>
TarballValidates(data) ==
    /\ Base64Decode(data).ok
    /\ GzipDecode(Base64Decode(data).val).ok
    /\ TarDecode(GzipDecode(Base64Decode(data).val).val).ok
    /\ ValidateTarball(TarDecode(GzipDecode(Base64Decode(data).val).val).val, ServerBuild) = Accepted
PublishIsValid ==
    /\ TaggedVersion \in DOMAIN call.arg.new.versions.val
    /\ NameParses
    /\ ExpectedAttachment \in DOMAIN call.arg.new.attachments.val
    /\ LET attachment == call.arg.new.attachments.val[ExpectedAttachment] IN
       /\ attachment.content_type = "application/octet-stream"
       /\ TarballValidates(attachment.data)

\* C18: when no stargazer change applies and the new packument has versions,
\* attachments and dist-tags naming exactly one tag, from_diff returns AddVersion
\* exactly if new.versions contains the tagged version, a package name (name, else
\* id) is present and parses, the attachment "{name without scope}-{version}.tgz"
\* exists with content type application/octet-stream and the tarball validates;
\* the result has tag "latest" if latest is set, else the sole tag key, and
\* version new.versions[tagged version]; otherwise the call is an error.
C18_PublishAcceptedExactlyWhenValid ==
    (call.fn = "from_diff" /\ ~StargazersChanged /\ PublishPresent) =>
        IF PublishIsValid
        THEN /\ call.res.ok
             /\ call.res.val.kind = "AddVersion"
             /\ call.res.val.tag = TagName
             /\ call.res.val.version = call.arg.new.versions.val[TaggedVersion]
        ELSE ~call.res.ok

\* an accepted publish of a scoped package under a tag other than latest: the
\* attachment is named without the scope
C18_Witness ==
    /\ call.fn = "from_diff" /\ ~StargazersChanged /\ PublishPresent
    /\ PublishIsValid
    /\ ParsePackageIdentifier(GivenName.val).val.scope.some
    /\ call.res.ok /\ call.res.val.kind = "AddVersion" /\ call.res.val.tag = "beta"

\* C19: for every publish from_diff accepts, AddVersion.tarball is the gunzip of
\* the base64-decoded data of the attachment, byte for byte.
C19_TarballIsGunzippedAttachment ==
    (call.fn = "from_diff" /\ call.res.ok /\ call.res.val.kind = "AddVersion") =>
        LET data == call.arg.new.attachments.val[ExpectedAttachment].data IN
        call.res.val.tarball = Some(GzipDecode(Base64Decode(data).val).val)

\* C21: an archive of exactly MAX_FILE_COUNT entries is accepted if it is otherwise
\* valid, and every archive of more entries is rejected when its entry number
\* MAX_FILE_COUNT + 1 is reached, whatever that entry is: no archive is accepted
\* after more than MAX_FILE_COUNT entries, none is still being read after entry
\* MAX_FILE_COUNT + 1, and the file-count error is given at no other entry.
C21_FileCountLimitIsExact ==
    call.fn = "tarball.entries" =>
        /\ (call.done /\ call.res = Accepted) => call.read <= 16000
        /\ call.read > 16000 => (call.done /\ call.res # Accepted /\ call.read = 16001)
        /\ (call.done /\ call.res = Err("Tarball exceeded maximum file count"))
               => call.read = 16001

\* an archive of exactly 16000 entries, accepted
C21_Witness ==
    /\ call.fn = "tarball.entries" /\ call.done
    /\ call.read = 16000 /\ call.res = Accepted

\* the entries of the archive in the attachment of the publish a call describes
PublishedEntries ==
    LET data == call.arg.new.attachments.val[ExpectedAttachment].data IN
    TarDecode(GzipDecode(Base64Decode(data).val).val).val
HasPackageJson(entries) ==
    \E i \in 1..Len(entries) : entries[i].path = <<"package", "package.json">>
AllUnderPackage(entries) ==
    \A i \in 1..Len(entries) : Len(entries[i].path) >= 1 /\ entries[i].path[1] = "package"

\* C22: from_diff emits AddVersion only if the path of every entry of the archive
\* begins with the component package and some entry is package/package.json; an
\* archive with an entry elsewhere, or without package/package.json, is rejected
\* even when every other check passes.
C22_OnlyPackageEntries ==
    (call.fn = "from_diff" /\ call.res.ok /\ call.res.val.kind = "AddVersion") =>
        AllUnderPackage(PublishedEntries) /\ HasPackageJson(PublishedEntries)

\* a publish rejected only for an entry outside package/: the archive holds
\* package/package.json and the entry outside comes after it
C22_Witness ==
    /\ call.fn = "from_diff" /\ ~StargazersChanged /\ PublishPresent
    /\ TaggedVersion \in DOMAIN call.arg.new.versions.val
    /\ NameParses
    /\ ExpectedAttachment \in DOMAIN call.arg.new.attachments.val
    /\ call.res = Err("Tarball entry didn't start with 'package/'")
    /\ HasPackageJson(PublishedEntries)
    /\ PublishedEntries[1].path = <<"package", "package.json">>

\* The set changes of a PUT that storage holds the old packument of.
PutOld == call.arg.fetched.val
PutNew == call.arg.payload
RemovesSeveral(old_set, new_set) == Cardinality(old_set \ new_set) > 1
OnlyAddsSeveral(old_set, new_set) == old_set \subseteq new_set /\ Cardinality(new_set \ old_set) > 1
Rejected(message) == from_diff(PutOld, PutNew) = Err(message) /\ call.res = 400

\* C23: a PUT that removes more than one stargazer or more than one maintainer, or
\* that removes none and adds more than one, is rejected by from_diff with the
\* error 'Can only remove/add a single stargazer/maintainer at a time', and
\* put_packument answers 400.
C23_SeveralChangesRejected ==
    (/\ call.fn = "put_packument" /\ call.arg.fetched.ok
     /\ call.arg.payload.id = Some(call.arg.pkg)
     /\ ParsePackageIdentifier(call.arg.pkg).ok) =>
        LET stars == PutOld.stargazers.some /\ PutNew.stargazers.some
            maintainers == PutOld.maintainers.some /\ PutNew.maintainers.some
            old_stars == KeysOf(PutOld.stargazers)
            new_stars == KeysOf(PutNew.stargazers)
            old_names == NamesOf(PutOld.maintainers)
            new_names == NamesOf(PutNew.maintainers)
        IN
        /\ (stars /\ RemovesSeveral(old_stars, new_stars))
               => Rejected("Can only remove a single stargazer at a time")
        /\ (stars /\ OnlyAddsSeveral(old_stars, new_stars))
               => Rejected("Can only add a single stargazer at a time")
        /\ (maintainers /\ RemovesSeveral(old_names, new_names))
               => Rejected("Can only remove a single maintainer at a time")
        /\ (maintainers /\ OnlyAddsSeveral(old_names, new_names))
               => Rejected("Can only add a single maintainer at a time")

\* The package name N and the URL tail T of a call of the tarball handler.
TarballRoute == call.fn \in {"get_tarball", "get_scoped_tarball"}
NameN == ParsePackageIdentifier(call.arg.pkg).val.name
TailT == call.arg.tarball
WellShapedTail ==
    /\ Len(TailT) >= Len(NameN) + 1
    /\ \A i \in 1..Len(NameN) : TailT[i] = NameN[i]
    /\ TailT[Len(NameN) + 1] = "-"
    /\ Len(TailT) >= 4
    /\ <<TailT[Len(TailT) - 3], TailT[Len(TailT) - 2], TailT[Len(TailT) - 1], TailT[Len(TailT)]>>
           = <<".", "t", "g", "z">>

\* C24: for every package name N and URL tail T the tarball handler proceeds iff T
\* starts with N, has '-' at index |N| and ends with '.tgz'; it then requests the
\* version T[|N|+1 .. |T|-4] from storage and the upstream URL of that request
\* ends in '/-/' followed by T; for every other T it answers 400 and storage is
\* not called.
C24_TarballTailDecidesVersion ==
    (TarballRoute /\ ParsePackageIdentifier(call.arg.pkg).ok) =>
        IF WellShapedTail
        THEN /\ call.res.request.some
             /\ call.res.status \in {"200", "500"}
             /\ call.res.request.val.version = SubSeq(TailT, Len(NameN) + 2, Len(TailT) - 4)
             /\ EndsWith(call.res.request.val.url, <<"/", "-", "/">> \o TailT)
        ELSE call.res = TarballAnswer("400", Absent)

\* a scoped package whose tail holds a version with a dash in it
C24_Witness ==
    /\ call.fn = "get_scoped_tarball" /\ ParsePackageIdentifier(call.arg.pkg).ok
    /\ WellShapedTail
    /\ call.res.request.some
    /\ call.res.request.val.version = <<"1", "-", "1">>

\* C25: every handler answers a malformed URL parameter with 400: a package
\* identifier that does not parse on the packument, publish and tarball routes, a
\* session id that does not parse on the login poll and login www routes; no
\* request is aborted without a response.
C25_MalformedParameterIs400 ==
    /\ (call.fn \in {"get_packument", "get_scoped_packument"}
            /\ ~ParsePackageIdentifier(call.arg.pkg).ok) => call.res = "400"
    /\ (call.fn = "put_packument" /\ ~ParsePackageIdentifier(call.arg.pkg).ok) => call.res = 400
    /\ (call.fn \in {"get_tarball", "get_scoped_tarball"}
            /\ ~ParsePackageIdentifier(call.arg.pkg).ok) => call.res.status = "400"
    /\ (call.fn \in {"get_login_poll", "www_login"}
            /\ call.arg.session.some /\ ~ParseSessionId(call.arg.session.val).ok)
           => call.res = "400"

Parsed == call.fn = "PackageIdentifier::from_str"

\* C26: for every identifier p the parser returns, for any input segment, parsing
\* the rendering of p yields p again.
C26_ParseRenderRoundTrip ==
    (Parsed /\ call.res.ok) => ParsePackageIdentifier(Render(call.res.val)) = Ok(call.res.val)

\* C27: with the segment percent-decoded and split on '/': one part not starting
\* with '@' is the name, without scope; one part starting with '@' fails; two
\* parts of which the first starts with '@' are the scope (without '@') and the
\* name; two parts with an unscoped first part, and more than two parts, fail; a
\* segment that does not decode to UTF-8 fails.
C27_ParseByParts ==
    Parsed =>
        IF ~UrlDecode(call.arg).ok THEN ~call.res.ok
        ELSE LET parts == Split(UrlDecode(call.arg).val, "/")
                 at == Len(parts[1]) >= 1 /\ parts[1][1] = "@"
             IN
             /\ (Len(parts) = 1 /\ ~at) => call.res = Ok([scope |-> Absent, name |-> parts[1]])
             /\ (Len(parts) = 1 /\ at) => ~call.res.ok
             /\ (Len(parts) = 2 /\ at)
                    => call.res = Ok([scope |-> Some(SubSeq(parts[1], 2, Len(parts[1]))),
                                      name |-> parts[2]])
             /\ (Len(parts) = 2 /\ ~at) => ~call.res.ok
             /\ Len(parts) > 2 => ~call.res.ok

\* a percent-encoded segment that decodes to a scope and a name
C27_Witness ==
    /\ Parsed /\ call.arg = <<"@", "%", "2", "F", "f">>
    /\ call.res = Ok([scope |-> Some(<<>>), name |-> <<"f">>])

\* leading and trailing spaces removed, written without the model's trim
RECURSIVE Stripped(_)
Stripped(str) ==
    IF str = <<>> THEN str
    ELSE IF str[1] = " " THEN Stripped(SubSeq(str, 2, Len(str)))
    ELSE IF str[Len(str)] = " " THEN Stripped(SubSeq(str, 1, Len(str) - 1))
    ELSE str

\* C28: into_object returns an Object maintainer unchanged, and parses a byline
\* name [<email>] [(url)] into the name without surrounding whitespace, the email
\* between '<' and '>' and the url between '(' and ')'; email and url are unset
\* when the byline has no such part.
C28_IntoObject ==
    call.fn = "Maintainer::into_object" =>
        IF "byline" \in DOMAIN call.arg
        THEN /\ call.res.name = Some(Stripped(call.parts.name))
             /\ call.res.email = call.parts.email
             /\ call.res.url = call.parts.url
        ELSE call.res = call.arg

\* a byline with a padded name, an email and no url
C28_Witness ==
    /\ call.fn = "Maintainer::into_object" /\ "byline" \in DOMAIN call.arg
    /\ call.arg.byline = <<" ", "n", " ", "<", "e", "@", "e", ">", " ">>
    /\ call.res = [name |-> Some(<<"n">>), email |-> Some(<<"e", "@", "e">>), url |-> Absent]

\* C29: GET /-/user/org.couchdb.user:{name} answers 200 carrying the name when a
\* login callback has registered that name with user storage, and 404 when the
\* name was never registered.
C29_Step ==
    \A c \in Clients, name \in Logins :
        GetUser(c, <<":", name>>) =>
            /\ UserStorageGetUser(users, name).ok => (out'.code = "200" /\ out'.user = name)
            /\ ~UserStorageGetUser(users, name).ok => out'.code = "404"
C29_RegisteredUserIsFetched == [][C29_Step]_vars

\* C30: the login-session map lock is held only for one insert, read or remove:
\* while a callback is suspended on the code exchange, the profile fetch or
\* register_user, nobody holds the write guard, and a poll of any session by an
\* idle client can take its step.
Suspended(c) == au[c].pc = "exchange"
C30_LockNotHeldAcrossExchange ==
    \A c \in Clients :
        Suspended(c) =>
            /\ sessions_lock = NoOne
            /\ \A d \in Clients \ {c}, s \in SessionIds : Ready(d) => ENABLED PollRead(d, s)

\* C31: under any interleaving of polls of one session id, at most one call
\* gets the session's user: the call that gets it takes the session out of the
\* map in the same step, a session id that has been issued is never inserted
\* again, and so no two calls are on their way to start_session for one session.
ReturnsUser(c) == PollRemove(c) /\ au'[c].pc = "start_session"
Issued(s) == s <= ids.session
C31_Step ==
    /\ \A c \in Clients :
          ReturnsUser(c) =>
              /\ au[c].sid \in DOMAIN login_sessions
              /\ au[c].sid \notin DOMAIN login_sessions'
              /\ au'[c].ret = login_sessions[au[c].sid].user
    /\ \A s \in SessionIds :
          (Issued(s) /\ s \notin DOMAIN login_sessions) => s \notin DOMAIN login_sessions'
    /\ \A c, d \in Clients :
          (c # d /\ au'[c].pc = "start_session" /\ au'[d].pc = "start_session")
              => au'[c].sid # au'[d].sid
C31_UserReturnedAtMostOnce == [][C31_Step]_vars

\* Two polls of one session were in flight together, and one of them got the user.
C31_Witness ==
    \E c, d \in Clients :
        /\ c # d
        /\ au[c].pc = "start_session"
        /\ au[d].pc = "remove"
        /\ au[d].sid = au[c].sid

\* C32: a poll answers None (202, retry) only if, when it completes, the polled
\* session still exists and has no user; once the user of a session has been
\* set, no poll of it answers None.
Pending(sessions, s) == s \in DOMAIN sessions /\ ~HasUser(sessions[s])
AnswersNone(c) == au'[c].pc = "idle" /\ out' = Respond("poll", "202")
C32_Step ==
    /\ \A c \in Clients, s \in SessionIds :
          (PollRead(c, s) /\ AnswersNone(c)) => Pending(login_sessions', s)
    /\ \A c \in Clients :
          (PollRemove(c) /\ AnswersNone(c)) => Pending(login_sessions', au[c].sid)
C32_NoneOnlyWhilePending == [][C32_Step]_vars

\* C33: a login session enters the map only by start_login_session, under an id
\* never issued before, with user and csrftoken unset and every other session
\* left as it was; a session leaves the map only by a poll that returns that
\* session's user; a poll that answers anything else leaves the map's keys alone.
Created(s) == s \notin DOMAIN login_sessions /\ s \in DOMAIN login_sessions'
Removed(s) == s \in DOMAIN login_sessions /\ s \notin DOMAIN login_sessions'
C33_Step ==
    /\ \A s \in SessionIds :
          Created(s) =>
              /\ \E c \in Clients : PostLogin(c)
              /\ ~Issued(s)
              /\ login_sessions'[s].user = None
              /\ login_sessions'[s].csrftoken = NoCsrf
              /\ \A x \in DOMAIN login_sessions : login_sessions'[x] = login_sessions[x]
    /\ \A s \in SessionIds :
          Removed(s) =>
              \E c \in Clients :
                  /\ PollRemove(c)
                  /\ au[c].sid = s
                  /\ HasUser(login_sessions[s])
                  /\ au'[c].pc = "start_session"
                  /\ au'[c].ret = login_sessions[s].user
    /\ \A c \in Clients :
          (PollRemove(c) /\ au'[c].pc = "idle") => DOMAIN login_sessions' = DOMAIN login_sessions
OldVersions(old) == IF old.versions.some THEN DOMAIN old.versions.val ELSE {}
PublishedVersion(new) ==
    LET dist_tags == new.dist_tags.val IN
    IF dist_tags.latest.some THEN dist_tags.latest.val
    ELSE dist_tags.tags[CHOOSE k \in DOMAIN dist_tags.tags : TRUE]
Republishes(old, new) == PublishRuleApplies(new) /\ PublishedVersion(new) \in OldVersions(old)
C34_PublishedVersionNeverReplaced ==
    /\ (call.fn = "from_diff" /\ call.res.ok /\ call.res.val.kind = "AddVersion")
          => call.res.val.version.version \notin OldVersions(call.arg.old)
    /\ (call.fn = "put_packument" /\ Republishes(call.arg.fetched.val, call.arg.payload))
          => call.res = 400

\* C35: for every publish from_diff accepts, AddVersion.tarball is the whole
\* base64-decoded attachment, the bytes after the end of the gzip stream
\* included.
AcceptedPublish == call.fn = "from_diff" /\ call.res.ok /\ call.res.val.kind = "AddVersion"
DecodedAttachments(new) ==
    { Base64Decode(new.attachments.val[k].data).val : k \in DOMAIN new.attachments.val }
C35_TarballIsWholeAttachment ==
    AcceptedPublish =>
        /\ call.res.val.tarball.some
        /\ call.res.val.tarball.val \in DecodedAttachments(call.arg.new)

\* C36: write_packument and write_tarball never replace an object: a write to a
\* key the bucket holds answers Some(false) and issues no PUT, at most one PUT
\* is issued for a key whatever the interleaving of the writes, and the content
\* first stored under a key stays.
C36_FirstWriteWins ==
    InBucket =>
        /\ \A w \in Writers :
              (call.writers[w].pc = "done" /\ call.writers[w].head = "Ok") =>
                  (call.writers[w].res = "Ok(Some(false))" /\ ~call.writers[w].put)
        /\ \A k \in ObjectKeys : call.puts[k] <= 1
        /\ \A k \in ObjectKeys : call.first[k] # NoObject => call.objects[k] = call.first[k]

\* C37: the cache keys are injective: two requests that reach storage with
\* different package identifiers open different packument keys, and two that
\* reach it with different (package identifier, version) pairs open different
\* tarball keys.
BothReachStorage == call.res[1].some /\ call.res[2].some
C37_CacheKeysInjective ==
    /\ (call.fn = "stream_packument" /\ BothReachStorage) =>
          (call.res[1].val.pkg # call.res[2].val.pkg
              => call.res[1].val.key # call.res[2].val.key)
    /\ (call.fn = "stream_tarball" /\ BothReachStorage) =>
          (<<call.res[1].val.pkg, call.res[1].val.version>>
                  # <<call.res[2].val.pkg, call.res[2].val.version>>
              => call.res[1].val.key # call.res[2].val.key)

\* C38: every stream_packument / stream_tarball call terminates: it contacts
\* the upstream at most once, the call it re-enters after the commit finds the
\* entry and ends there, and every call that has started comes to its answer,
\* also when other requests fill the same key at the same time.
InCall(r) == rt[r].pc \notin {"idle", "done"}
C38_Step ==
    \A r \in Reqs :
        /\ rt'[r].fetches <= 1
        /\ Reopen(r) => (rt'[r].pc = "done" /\ rt'[r].resp.code = 200)
C38_CallTerminates ==
    /\ [][C38_Step]_vars
    /\ \A r \in Reqs : InCall(r) ~> Finished(r)

\* A call that filled the key while another request was filling it too has
\* re-entered itself and answered from the cache.
C38_Witness ==
    \E r, q \in Reqs :
        /\ r # q
        /\ Finished(r) /\ rt[r].fetches = 1 /\ rt[r].committed.found /\ rt[r].resp.code = 200
        /\ rt[q].pc \in {"fill", "commit"} /\ rt[q].target = rt[r].target

\* C39: the tarball-URL rewrite is idempotent: for every dist.tarball string
\* and every pair of upstream and public base URLs, rewriting the rewritten
\* string gives the rewritten string.
C39_RewriteIdempotent == call.fn = "rewrite" => call.again = call.res

\* C40: every identifier the parser accepts has a non-empty name, and a
\* non-empty scope when it has a scope: the empty segment, '@scope/' and
\* '@/name' are rejected.
C40_AcceptedPartsNonEmpty ==
    (Parsed /\ call.res.ok) =>
        /\ call.res.val.name # <<>>
        /\ call.res.val.scope.some => call.res.val.scope.val # <<>>

====
